---- MODULE Spec2Model ----
(***************************************************************************)
(* A model of ax25-rs: the KISS framer (src/src/kiss.rs), the AX.25 frame  *)
(* codec (src/src/frame.rs) and the TNC fan-out handle                     *)
(* (src/ax25_tnc/src/tnc.rs).                                              *)
(***************************************************************************)
EXTENDS Integers, Sequences, FiniteSets, TLC

(***************************************************************************)
(* KISS sentinel octets, kiss.rs:8-11                                      *)
(***************************************************************************)
FEND == 192

FESC == 219

TFEND == 220

TFESC == 221

\* size of the stack buffer one socket read fills, kiss.rs:40
ReadBufLen == 1024

(***************************************************************************)
(* Bounds of the model                                                     *)
(***************************************************************************)
\* longest arbitrary receive buffer the KISS specification builds
MaxLen == 6

\* longest well-formed KISS stream a peer writes
MaxWire == 8

\* most send_frame calls looped back into the receive buffer
MaxSends == 2

\* longest payload handed to send_frame
MaxPayloadLen == 2

\* most subscriptions created by incoming() in one behaviour
MaxSubs == 2

\* most KISS frames the peer TNC sends in one behaviour
MaxPeerFrames == 2

\* most clones of the Tnc handle alive at once
MaxHandles == 2

\* size of the short read the socket may return instead of all it holds
ShortRead == 7

\* caller threads that use one Tnc at the same time
MaxThreads == 2

\* longest first part of the texts from_str is given, in characters
MaxCallLen == 3

\* longest second part of those texts
MaxSsidLen == 3

\* most parameters after the type in a TNC address text
MaxParams == 3

\* longest stream the socket holds for callers of receive_frame
MaxChunked == 5

\* longest callsign, in bytes, a caller puts into the public field
MaxPadCall == 7

\* length at which the model stops following the growth of the Vec
MaxEncoded == 9

(***************************************************************************)
(* Helpers on sequences                                                    *)
(***************************************************************************)
\* Option<Vec<u8>>
None == [some |-> FALSE, val |-> <<>>]

Some(v) == [some |-> TRUE, val |-> v]

\* all sequences over S of length 0..n
SeqsUpTo(S, n) == UNION {[1..k -> S] : k \in 0..n}

\* all sequences over S of length 1..n
NonEmptySeqsUpTo(S, n) == UNION {[1..k -> S] : k \in 1..n}

(***************************************************************************)
(* make_frame_from_buffer, kiss.rs:72-129                                  *)
(***************************************************************************)
\* the locals before the loop, kiss.rs:73-81
ScanInit ==
    [state |-> "LookingForStartMarker", possible_frame |-> <<>>,
     final_idx |-> 0, stop |-> FALSE]

\* Scan::LookingForStartMarker arm, kiss.rs:87-91
ScanLooking(st, idx, c) ==
    IF c = FEND THEN [st EXCEPT !.state = "Data"] ELSE st

\* ScanData without the possible_frame.is_empty() test of kiss.rs:94
ScanData_NoEmptyTest(st, idx, c) ==
    IF c = FEND
    THEN [st EXCEPT !.final_idx = idx, !.stop = TRUE]
    ELSE IF c = FESC
         THEN [st EXCEPT !.state = "Escaped"]
         ELSE [st EXCEPT !.possible_frame = Append(@, c)]

\* Scan::Data arm, kiss.rs:92-104
ScanData(st, idx, c) ==
    IF c = FEND
    THEN IF st.possible_frame # <<>>
         THEN [st EXCEPT !.final_idx = idx, !.stop = TRUE]
         ELSE st
    ELSE IF c = FESC
         THEN [st EXCEPT !.state = "Escaped"]
         ELSE [st EXCEPT !.possible_frame = Append(@, c)]

\* ScanEscaped with the two transposed octets exchanged
ScanEscaped_Swapped(st, idx, c) ==
    IF c = TFEND
    THEN [st EXCEPT !.possible_frame = Append(@, FESC), !.state = "Data"]
    ELSE IF c = TFESC
         THEN [st EXCEPT !.possible_frame = Append(@, FEND), !.state = "Data"]
         ELSE IF c = FEND /\ st.possible_frame # <<>>
              THEN [st EXCEPT !.final_idx = idx, !.stop = TRUE]
              ELSE [st EXCEPT !.state = "Data"]

\* ScanEscaped that takes an unexpected octet after FESC into the frame
ScanEscaped_KeepsByte(st, idx, c) ==
    IF c = TFEND
    THEN [st EXCEPT !.possible_frame = Append(@, FEND), !.state = "Data"]
    ELSE IF c = TFESC
         THEN [st EXCEPT !.possible_frame = Append(@, FESC), !.state = "Data"]
         ELSE IF c = FEND /\ st.possible_frame # <<>>
              THEN [st EXCEPT !.final_idx = idx, !.stop = TRUE]
              ELSE [st EXCEPT !.possible_frame = Append(@, c),
                              !.state = "Data"]

\* Scan::Escaped arm, kiss.rs:105-116
ScanEscaped(st, idx, c) ==
    IF c = TFEND
    THEN [st EXCEPT !.possible_frame = Append(@, FEND), !.state = "Data"]
    ELSE IF c = TFESC
         THEN [st EXCEPT !.possible_frame = Append(@, FESC), !.state = "Data"]
         ELSE IF c = FEND /\ st.possible_frame # <<>>
              THEN [st EXCEPT !.final_idx = idx, !.stop = TRUE]
              ELSE [st EXCEPT !.state = "Data"]

\* one iteration of the for loop: the match on state, kiss.rs:86-117
ScanByte(st, idx, c) ==
    CASE st.state = "LookingForStartMarker" -> ScanLooking(st, idx, c)
      [] st.state = "Data" -> ScanData(st, idx, c)
      [] st.state = "Escaped" -> ScanEscaped(st, idx, c)

\* the for loop over buffer.iter().enumerate() from 0-based index idx,
\* left at the first break, kiss.rs:85-118
RECURSIVE ScanFrom(_, _, _)
ScanFrom(st, buffer, idx) ==
    IF st.stop \/ idx >= Len(buffer)
    THEN st
    ELSE \* s is the scan state after this iteration, bound as a value
         CHOOSE r \in {ScanFrom(s, buffer, idx + 1) :
                          s \in {ScanByte(st, idx, buffer[idx + 1])}} : TRUE

\* Drain that also removes the FEND at index n (drain(0..=n))
Drain_Inclusive(buffer, n) == SubSeq(buffer, n + 2, Len(buffer))

\* buffer.drain(0..n): what is left of the buffer, kiss.rs:125
Drain(buffer, n) == SubSeq(buffer, n + 1, Len(buffer))

\* index of the first FEND of s, or Len(s) + 1
RECURSIVE FirstFend(_, _)
FirstFend(s, i) ==
    IF i > Len(s) \/ s[i] = FEND THEN i ELSE FirstFend(s, i + 1)

\* make_frame_from_buffer that, finding no frame, still discards the octets
\* before the first start marker
make_frame_from_buffer_TrimsGarbage(buffer) ==
    LET st == ScanFrom(ScanInit, buffer, 0)
    IN  IF st.final_idx = 0
        THEN [frame |-> None,
              buffer |-> SubSeq(buffer, FirstFend(buffer, 1), Len(buffer))]
        ELSE [frame |-> Some(st.possible_frame),
              buffer |-> Drain(buffer, st.final_idx)]

\* the whole function: the frame returned and the buffer afterwards
make_frame_from_buffer(buffer) ==
    LET st == ScanFrom(ScanInit, buffer, 0)
    IN  IF st.final_idx = 0
        THEN [frame |-> None, buffer |-> buffer]
        ELSE [frame |-> Some(st.possible_frame),
              buffer |-> Drain(buffer, st.final_idx)]

(***************************************************************************)
(* TcpKissInterface::send_frame, kiss.rs:52-62: the octets written to the  *)
(* socket by the three write_all calls                                     *)
(***************************************************************************)
SendFrameBytes(frame) == <<FEND, 0>> \o frame \o <<FEND>>

(***************************************************************************)
(* Octet arithmetic (u8)                                                   *)
(***************************************************************************)
\* a & b on octets
RECURSIVE BitAnd(_, _)
BitAnd(a, b) ==
    IF a = 0 \/ b = 0 THEN 0
    ELSE (a % 2) * (b % 2) + 2 * BitAnd(a \div 2, b \div 2)

\* c >> n on octets
Shr(c, n) == c \div (2 ^ n)

\* Result<T, E>
Ok(v) == [ok |-> TRUE, val |-> v]

Err(e) == [ok |-> FALSE, err |-> e]

\* &bytes[from..to] with 0-based bounds, to exclusive
Slice(bytes, from, to) == SubSeq(bytes, from + 1, to)

\* bytes.iter().position(pred) as a 0-based index, or -1 for None
RECURSIVE Position(_, _, _)
Position(bytes, Pred(_), i) ==
    IF i >= Len(bytes) THEN -1
    ELSE IF Pred(bytes[i + 1]) THEN i
    ELSE Position(bytes, Pred, i + 1)

(***************************************************************************)
(* ProtocolIdentifier::from_byte, frame.rs:63-84                           *)
(***************************************************************************)
PidTable ==
    << <<1, "X25Plp">>, <<6, "CompressedTcpIp">>, <<7, "UncompressedTcpIp">>,
       <<8, "SegmentationFragment">>, <<195, "TexnetDatagram">>,
       <<196, "LinkQuality">>, <<202, "Appletalk">>, <<203, "AppletalkArp">>,
       <<204, "ArpaIp">>, <<205, "ArpaAddress">>, <<206, "Flexnet">>,
       <<207, "NetRom">>, <<240, "None">>, <<255, "Escape">> >>

Pid(kind) == [kind |-> kind, byte |-> 0]

PidUnknown(b) == [kind |-> "Unknown", byte |-> b]

\* from_byte whose range test takes any octet with one of the two bits set
from_byte_AnyBit(byte) ==
    IF BitAnd(byte, 48) # 0
    THEN Pid("Layer3Impl")
    ELSE IF \E i \in 1..Len(PidTable) : PidTable[i][1] = byte
         THEN Pid(PidTable[CHOOSE i \in 1..Len(PidTable) : PidTable[i][1] = byte][2])
         ELSE PidUnknown(byte)

\* ProtocolIdentifier::from_byte, frame.rs:63-84
from_byte(byte) ==
    IF BitAnd(byte, 48) = 16 \/ BitAnd(byte, 48) = 32
    THEN Pid("Layer3Impl")
    ELSE IF \E i \in 1..Len(PidTable) : PidTable[i][1] = byte
         THEN Pid(PidTable[CHOOSE i \in 1..Len(PidTable) : PidTable[i][1] = byte][2])
         ELSE PidUnknown(byte)

\* to_byte that gives Layer3Impl the other octet of its family
to_byte_Layer3As32(pid) ==
    IF pid.kind = "Layer3Impl" THEN 32
    ELSE IF pid.kind = "Unknown" THEN pid.byte
    ELSE PidTable[CHOOSE i \in 1..Len(PidTable) : PidTable[i][2] = pid.kind][1]

\* ProtocolIdentifier::to_byte, frame.rs:86-105
to_byte(pid) ==
    IF pid.kind = "Layer3Impl" THEN 16
    ELSE IF pid.kind = "Unknown" THEN pid.byte
    ELSE PidTable[CHOOSE i \in 1..Len(PidTable) : PidTable[i][2] = pid.kind][1]

(***************************************************************************)
(* parse_address, frame.rs:527-541                                         *)
(***************************************************************************)
\* .skip_while(|&c| c == b' ') on the reversed, shifted octets amounts to
\* dropping the spaces that end the shifted callsign
RECURSIVE DropTrailingSpaces(_)
DropTrailingSpaces(cs) ==
    IF cs # <<>> /\ cs[Len(cs)] = 32
    THEN DropTrailingSpaces(SubSeq(cs, 1, Len(cs) - 1))
    ELSE cs

\* String::from_utf8 on octets below 0x80 (every octet here is some c >> 1)
Utf8Valid(cs) == \A i \in 1..Len(cs) : cs[i] < 128

parse_address(bytes) ==
    LET dest_utf8 == DropTrailingSpaces([i \in 1..6 |-> Shr(bytes[i], 1)])
    IN  IF ~Utf8Valid(dest_utf8)
        THEN Err([kind |-> "AddressInvalidUtf8"])
        ELSE Ok([callsign |-> dest_utf8,
                 ssid |-> BitAnd(Shr(bytes[7], 1), 15),
                 c_bit |-> BitAnd(bytes[7], 128) > 0])

(***************************************************************************)
(* Address: to_bytes, Display and FromStr, frame.rs:309-392. A String is the *)
(* sequence of its characters' code points                                 *)
(***************************************************************************)
\* a | b on octets
BitOr(a, b) == a + b - BitAnd(a, b)

\* b << 1 on a u8: the bit shifted out is lost
Shl1(b) == (b * 2) % 256

\* the UTF-8 octets of a character below U+0800
Utf8Char(c) == IF c < 128 THEN <<c>> ELSE <<192 + (c \div 64), 128 + (c % 64)>>

\* str::as_bytes
RECURSIVE as_bytes(_)
as_bytes(str) ==
    IF str = <<>> THEN <<>> ELSE Utf8Char(Head(str)) \o as_bytes(Tail(str))

\* char::to_uppercase on ASCII, e-acute (U+00E9) and sharp s (U+00DF)
UpperChar(c) ==
    IF c \in 97..122 THEN <<c - 32>>
    ELSE IF c = 233 THEN <<201>>
    ELSE IF c = 223 THEN <<83, 83>>
    ELSE <<c>>

\* str::to_uppercase
RECURSIVE to_uppercase(_)
to_uppercase(str) ==
    IF str = <<>> THEN <<>> ELSE UpperChar(Head(str)) \o to_uppercase(Tail(str))

\* char::is_alphanumeric on the same characters
is_alphanumeric(c) ==
    c \in (48..57) \cup (65..90) \cup (97..122) \cup {201, 223, 233}

\* the address record
Addr(callsign, ssid, c_bit) ==
    [callsign |-> callsign, ssid |-> ssid, c_bit |-> c_bit]

\* the padding loop of frame.rs:326-328, for a callsign of at most 6 octets
RECURSIVE PadTo6(_)
PadTo6(encoded) ==
    IF Len(encoded) # 6 THEN PadTo6(Append(encoded, Shl1(32))) ELSE encoded

\* Address::to_bytes that leaves the high bit of the SSID octet clear
address_to_bytes_NoHighBit(a, high_bit, final_in_address) ==
    LET shifted == [i \in 1..Len(as_bytes(a.callsign)) |->
                       Shl1(as_bytes(a.callsign)[i])]
        low == IF final_in_address THEN 1 ELSE 0
    IN  Append(PadTo6(shifted), BitOr(BitOr(Shl1(a.ssid), 96), low))

\* Address::to_bytes, frame.rs:319-336
address_to_bytes(a, high_bit, final_in_address) ==
    LET shifted == [i \in 1..Len(as_bytes(a.callsign)) |->
                       Shl1(as_bytes(a.callsign)[i])]
        high == IF high_bit THEN 128 ELSE 0
        low == IF final_in_address THEN 1 ELSE 0
        ssid_byte == BitOr(BitOr(BitOr(Shl1(a.ssid), 96), high), low)
    IN  Append(PadTo6(shifted), ssid_byte)

\* format!("{}", n) for a u8: its decimal digits, no leading zero
RECURSIVE Decimal(_)
Decimal(n) ==
    IF n < 10 THEN <<48 + n>> ELSE Append(Decimal(n \div 10), 48 + (n % 10))

\* impl Display for Address, frame.rs:349-357
address_fmt(a) ==
    LET ssid_str == IF a.ssid = 0 THEN <<>> ELSE <<45>> \o Decimal(a.ssid)
    IN  a.callsign \o ssid_str

\* s.split('-').collect(): the parts of s between its hyphens
RECURSIVE Split(_)
Split(str) ==
    IF 45 \notin {str[i] : i \in 1..Len(str)} THEN <<str>>
    ELSE LET k == CHOOSE i \in 1..Len(str) :
                      str[i] = 45 /\ \A j \in 1..(i - 1) : str[j] # 45
         IN  <<SubSeq(str, 1, k - 1)>> \o Split(SubSeq(str, k + 1, Len(str)))

\* the value of a run of decimal digits
RECURSIVE DigitsValue(_)
DigitsValue(ds) ==
    IF ds = <<>> THEN 0
    ELSE 10 * DigitsValue(SubSeq(ds, 1, Len(ds) - 1)) + (ds[Len(ds)] - 48)

\* str::parse::<u8>: an optional '+', then one decimal digit or more, the
\* value at most 255
parse_u8(str) ==
    LET digits == IF str # <<>> /\ Head(str) = 43 THEN Tail(str) ELSE str
    IN  IF str = <<>> THEN Err([kind |-> "InvalidSsid", source |-> "Empty"])
        ELSE IF digits = <<>> \/ \E i \in 1..Len(digits) : digits[i] \notin 48..57
        THEN Err([kind |-> "InvalidSsid", source |-> "InvalidDigit"])
        ELSE IF DigitsValue(digits) > 255
        THEN Err([kind |-> "InvalidSsid", source |-> "PosOverflow"])
        ELSE Ok(DigitsValue(digits))

\* impl FromStr for Address, frame.rs:359-392
address_from_str(str) ==
    LET parts == Split(str)
        callsign == to_uppercase(parts[1])
        ssid == parse_u8(parts[2])
    IN  IF Len(parts) # 2 THEN Err([kind |-> "InvalidFormat"])
        ELSE IF callsign = <<>> \/ Len(as_bytes(callsign)) > 6
        THEN Err([kind |-> "InvalidFormat"])
        ELSE IF \E i \in 1..Len(callsign) : ~is_alphanumeric(callsign[i])
        THEN Err([kind |-> "InvalidFormat"])
        ELSE IF ~ssid.ok THEN ssid
        ELSE IF ssid.val > 15 THEN Err([kind |-> "SsidOutOfRange"])
        ELSE Ok(Addr(callsign, ssid.val, FALSE))

(***************************************************************************)
(* impl FromStr for TncAddress, tnc.rs:147-198                             *)
(***************************************************************************)
\* "tnc:", "tcpkiss" and "linuxif" as code points
TncPrefix == <<116, 110, 99, 58>>
TcpKissWord == <<116, 99, 112, 107, 105, 115, 115>>
LinuxIfWord == <<108, 105, 110, 117, 120, 105, 102>>

\* str::starts_with
starts_with(str, prefix) ==
    Len(str) >= Len(prefix) /\ SubSeq(str, 1, Len(prefix)) = prefix

\* s.split(':').collect(): the parts of s between its colons
RECURSIVE SplitColon(_)
SplitColon(str) ==
    IF 58 \notin {str[i] : i \in 1..Len(str)} THEN <<str>>
    ELSE LET k == CHOOSE i \in 1..Len(str) :
                      str[i] = 58 /\ \A j \in 1..(i - 1) : str[j] # 58
         IN  <<SubSeq(str, 1, k - 1)>>
                 \o SplitColon(SubSeq(str, k + 1, Len(str)))

\* str::parse::<u16> that overflows above 255
parse_u16_Max255(str) ==
    LET digits == IF str # <<>> /\ Head(str) = 43 THEN Tail(str) ELSE str
    IN  IF str = <<>> THEN Err([kind |-> "InvalidPort", input |-> str,
                                source |-> "Empty"])
        ELSE IF digits = <<>> \/ \E i \in 1..Len(digits) : digits[i] \notin 48..57
        THEN Err([kind |-> "InvalidPort", input |-> str,
                  source |-> "InvalidDigit"])
        ELSE IF DigitsValue(digits) > 255
        THEN Err([kind |-> "InvalidPort", input |-> str,
                  source |-> "PosOverflow"])
        ELSE Ok(DigitsValue(digits))

\* components[3].parse() into a u16 with its map_err, tnc.rs:167-170: an
\* optional '+', then one decimal digit or more, the value at most 65535
parse_u16(str) ==
    LET digits == IF str # <<>> /\ Head(str) = 43 THEN Tail(str) ELSE str
    IN  IF str = <<>> THEN Err([kind |-> "InvalidPort", input |-> str,
                                source |-> "Empty"])
        ELSE IF digits = <<>> \/ \E i \in 1..Len(digits) : digits[i] \notin 48..57
        THEN Err([kind |-> "InvalidPort", input |-> str,
                  source |-> "InvalidDigit"])
        ELSE IF DigitsValue(digits) > 65535
        THEN Err([kind |-> "InvalidPort", input |-> str,
                  source |-> "PosOverflow"])
        ELSE Ok(DigitsValue(digits))

\* TncAddress::from_str, tnc.rs:150-197
tnc_address_from_str(str) ==
    LET components == SplitColon(str)
        len == Len(components)
        port == parse_u16(components[4])
    IN  IF ~starts_with(str, TncPrefix)
        THEN Err([kind |-> "NoTncPrefix", string |-> str])
        ELSE IF components[2] = TcpKissWord
        THEN IF len # 4
             THEN Err([kind |-> "WrongParameterCount",
                       tnc_type |-> components[2], expected |-> 2,
                       actual |-> len - 2])
             ELSE IF ~port.ok THEN port
             ELSE Ok([config |-> "TcpKiss", host |-> components[3],
                      port |-> port.val])
        ELSE IF components[2] = LinuxIfWord
        THEN IF len # 3
             THEN Err([kind |-> "WrongParameterCount",
                       tnc_type |-> components[2], expected |-> 1,
                       actual |-> len - 2])
             ELSE Ok([config |-> "LinuxIf", callsign |-> components[3]])
        ELSE Err([kind |-> "UnknownType", tnc_type |-> components[2]])

(***************************************************************************)
(* parse_content and the per-family parsers, frame.rs:543-658              *)
(***************************************************************************)
\* parse_i_frame, frame.rs:543-555
parse_i_frame(bytes) ==
    IF Len(bytes) < 2
    THEN Err([kind |-> "MissingPidField"])
    ELSE LET c == bytes[1]
         IN  Ok([kind |-> "Information",
                 receive_sequence |-> Shr(BitAnd(c, 224), 5),
                 send_sequence |-> Shr(BitAnd(c, 14), 1),
                 poll |-> BitAnd(c, 16) > 0,
                 pid |-> from_byte(bytes[2]),
                 info |-> Slice(bytes, 2, Len(bytes))])

\* parse_s_frame, frame.rs:557-579
parse_s_frame(bytes) ==
    LET c == bytes[1]
        n_r == Shr(BitAnd(c, 224), 5)
        poll_or_final == BitAnd(c, 16) > 0
        sub == BitAnd(c, 15)
    IN  IF sub = 1
        THEN Ok([kind |-> "ReceiveReady", receive_sequence |-> n_r,
                 poll_or_final |-> poll_or_final])
        ELSE IF sub = 5
        THEN Ok([kind |-> "ReceiveNotReady", receive_sequence |-> n_r,
                 poll_or_final |-> poll_or_final])
        ELSE IF sub = 9
        THEN Ok([kind |-> "Reject", receive_sequence |-> n_r,
                 poll_or_final |-> poll_or_final])
        ELSE Err([kind |-> "UnrecognisedSFieldType"])

\* parse_ui_frame, frame.rs:611-621
parse_ui_frame(bytes) ==
    IF Len(bytes) < 2
    THEN Err([kind |-> "MissingPidField"])
    ELSE Ok([kind |-> "UnnumberedInformation",
             poll_or_final |-> BitAnd(bytes[1], 16) > 0,
             pid |-> from_byte(bytes[2]),
             info |-> Slice(bytes, 2, Len(bytes))])

\* parse_frmr_frame, frame.rs:623-643
parse_frmr_frame(bytes) ==
    IF Len(bytes) # 4
    THEN Err([kind |-> "WrongSizeFrmrInfo"])
    ELSE Ok([kind |-> "FrameReject",
             final_bit |-> BitAnd(bytes[1], 16) > 0,
             rejected_control_field_raw |-> bytes[4],
             z |-> BitAnd(bytes[2], 8) > 0,
             y |-> BitAnd(bytes[2], 4) > 0,
             x |-> BitAnd(bytes[2], 2) > 0,
             w |-> BitAnd(bytes[2], 1) > 0,
             receive_sequence |-> Shr(BitAnd(bytes[3], 224), 5),
             command_response |->
                 IF BitAnd(bytes[3], 16) > 0 THEN "Response" ELSE "Command",
             send_sequence |-> Shr(BitAnd(bytes[3], 14), 1)])

\* parse_u_frame that matches the control octet with its P/F bit
parse_u_frame_WithPf(bytes) ==
    LET c == bytes[1]
        poll_or_final == BitAnd(c, 16) > 0
        sub == c
    IN  IF sub = 47
        THEN Ok([kind |-> "SetAsynchronousBalancedMode", poll |-> poll_or_final])
        ELSE IF sub = 67
        THEN Ok([kind |-> "Disconnect", poll |-> poll_or_final])
        ELSE IF sub = 15
        THEN Ok([kind |-> "DisconnectedMode", final_bit |-> poll_or_final])
        ELSE IF sub = 99
        THEN Ok([kind |-> "UnnumberedAcknowledge", final_bit |-> poll_or_final])
        ELSE IF sub = 135
        THEN parse_frmr_frame(bytes)
        ELSE IF sub = 3
        THEN parse_ui_frame(bytes)
        ELSE Err([kind |-> "UnrecognisedUFieldType"])

\* parse_u_frame, frame.rs:581-609
parse_u_frame(bytes) ==
    LET c == bytes[1]
        poll_or_final == BitAnd(c, 16) > 0
        sub == BitAnd(c, 239)
    IN  IF sub = 47
        THEN Ok([kind |-> "SetAsynchronousBalancedMode", poll |-> poll_or_final])
        ELSE IF sub = 67
        THEN Ok([kind |-> "Disconnect", poll |-> poll_or_final])
        ELSE IF sub = 15
        THEN Ok([kind |-> "DisconnectedMode", final_bit |-> poll_or_final])
        ELSE IF sub = 99
        THEN Ok([kind |-> "UnnumberedAcknowledge", final_bit |-> poll_or_final])
        ELSE IF sub = 135
        THEN parse_frmr_frame(bytes)
        ELSE IF sub = 3
        THEN parse_ui_frame(bytes)
        ELSE Err([kind |-> "UnrecognisedUFieldType"])

\* parse_content that takes only c & 0x03 == 0 for an I frame
parse_content_FallThrough(bytes) ==
    IF bytes = <<>>
    THEN Err([kind |-> "ContentZeroLength"])
    ELSE LET c == bytes[1]
         IN  IF BitAnd(c, 3) = 0 THEN parse_i_frame(bytes)
             ELSE IF BitAnd(c, 3) = 1 THEN parse_s_frame(bytes)
             ELSE IF BitAnd(c, 3) = 3 THEN parse_u_frame(bytes)
             ELSE Ok([kind |-> "UnknownContent", raw |-> bytes])

\* parse_content, frame.rs:646-658
parse_content(bytes) ==
    IF bytes = <<>>
    THEN Err([kind |-> "ContentZeroLength"])
    ELSE LET c == bytes[1]
         IN  IF BitAnd(c, 1) = 0 THEN parse_i_frame(bytes)
             ELSE IF BitAnd(c, 3) = 1 THEN parse_s_frame(bytes)
             ELSE IF BitAnd(c, 3) = 3 THEN parse_u_frame(bytes)
             ELSE Ok([kind |-> "UnknownContent", raw |-> bytes])

(***************************************************************************)
(* Ax25Frame::from_bytes, frame.rs:434-486                                 *)
(***************************************************************************)
\* a scan for the start of the address field that stops at any octet
NonNull_Any(c) == TRUE

NonNull(c) == c # 0

\* a scan for the end of the address field that looks at the top bit
LowBitSet_TopBit(c) == c >= 128

LowBitSet(c) == BitAnd(c, 1) = 1

\* the route loop, frame.rs:462-470: the entries from repeater i on, or the
\* error of the first repeater that does not parse
RECURSIVE parse_route(_, _, _, _)
parse_route(bytes, addr_start, i, rpt_count) ==
    IF i >= rpt_count THEN Ok(<<>>)
    ELSE LET repeater == parse_address(Slice(bytes, addr_start + 14 + i * 7,
                                             addr_start + 14 + (i + 1) * 7))
             rest == parse_route(bytes, addr_start, i + 1, rpt_count)
         IN  IF ~repeater.ok THEN repeater
             ELSE IF ~rest.ok THEN rest
             ELSE Ok(<<[has_repeated |-> repeater.val.c_bit,
                        repeater |-> repeater.val]>> \o rest.val)

\* the match of frame.rs:473-477
CommandOrResponse(dest_c_bit, src_c_bit) ==
    IF dest_c_bit /\ ~src_c_bit THEN "Command"
    ELSE IF ~dest_c_bit /\ src_c_bit THEN "Response"
    ELSE "None"

from_bytes(bytes) ==
    LET addr_start == Position(bytes, NonNull, 0)
        addr_end == Position(bytes, LowBitSet, 0)
        control == addr_end + 1
    IN  IF addr_start < 0 THEN Err([kind |-> "OnlyNullBytes"])
        ELSE IF addr_end < 0 THEN Err([kind |-> "NoEndToAddressField"])
        ELSE IF addr_end - addr_start + 1 < 14
        THEN Err([kind |-> "AddressFieldTooShort",
                  start |-> addr_start, end |-> addr_end])
        ELSE IF control >= Len(bytes)
        THEN Err([kind |-> "FrameTooShort", len |-> Len(bytes)])
        ELSE
        LET dest == parse_address(Slice(bytes, addr_start, addr_start + 7))
            src_addr == parse_address(Slice(bytes, addr_start + 7, addr_start + 14))
            rpt_count == (addr_end + 1 - addr_start - 14) \div 7
            route == parse_route(bytes, addr_start, 0, rpt_count)
            content == parse_content(Slice(bytes, control, Len(bytes)))
        IN  IF ~dest.ok THEN dest
            ELSE IF ~src_addr.ok THEN src_addr
            ELSE IF ~route.ok THEN route
            ELSE IF ~content.ok THEN content
            ELSE Ok([source |-> src_addr.val,
                     destination |-> dest.val,
                     route |-> route.val,
                     content |-> content.val,
                     command_or_response |->
                         CommandOrResponse(dest.val.c_bit, src_addr.val.c_bit)])

(***************************************************************************)
(* The ranges and indices from_bytes and its helpers take, each as the     *)
(* 0-based range [from, to) taken of a slice of length of                  *)
(***************************************************************************)
\* bytes[i] of a slice of length n
Index(i, n) == [from |-> i, to |-> i + 1, of |-> n]

\* &bytes[lo..hi] of a slice of length n given to parse_address, and in it
\* bytes[0..6] and bytes[6], frame.rs:528, 537-538
address_slices(lo, hi, n) ==
    {[from |-> lo, to |-> hi, of |-> n],
     [from |-> 0, to |-> 6, of |-> hi - lo],
     Index(6, hi - lo)}

\* control octet, PID and information of parse_i_frame and parse_ui_frame,
\* frame.rs:544-554, 612-620
pid_info_slices(n) ==
    IF n < 2 THEN {}
    ELSE {Index(0, n), Index(1, n), [from |-> 2, to |-> n, of |-> n]}

\* what parse_content and the parser it calls take of the content,
\* frame.rs:543-658
content_slices(content) ==
    LET n == Len(content)
        c == content[1]
    IN  IF content = <<>> THEN {}
        ELSE {Index(0, n)}
             \cup (IF BitAnd(c, 1) = 0 THEN pid_info_slices(n)
                   ELSE IF BitAnd(c, 3) = 1 THEN {}
                   ELSE IF BitAnd(c, 239) = 135
                   THEN (IF n # 4 THEN {} ELSE {Index(i, n) : i \in 0..3})
                   ELSE IF BitAnd(c, 239) = 3 THEN pid_info_slices(n)
                   ELSE {})

\* from_bytes_slices that goes on to the destination address where the
\* test of frame.rs:448-453 returns
from_bytes_slices_NoAddressCheck(bytes) ==
    LET addr_start == Position(bytes, NonNull, 0)
        addr_end == Position(bytes, LowBitSet, 0)
        control == addr_end + 1
        rpt_count == (addr_end + 1 - addr_start - 14) \div 7
        dest == parse_address(Slice(bytes, addr_start, addr_start + 7))
        src_addr == parse_address(Slice(bytes, addr_start + 7, addr_start + 14))
        route == parse_route(bytes, addr_start, 0, rpt_count)
        parsed(i) == parse_address(Slice(bytes, addr_start + 14 + i * 7,
                                         addr_start + 14 + (i + 1) * 7))
    IN  IF addr_start < 0 \/ addr_end < 0 THEN {}
        ELSE IF addr_end - addr_start + 1 < 14
        THEN {[from |-> addr_start, to |-> addr_start + 7, of |-> Len(bytes)]}
        ELSE IF control >= Len(bytes) THEN {}
        ELSE address_slices(addr_start, addr_start + 7, Len(bytes))
             \cup (IF ~dest.ok THEN {}
                   ELSE address_slices(addr_start + 7, addr_start + 14,
                                       Len(bytes))
                        \cup
                   (IF ~src_addr.ok THEN {}
                    ELSE UNION {address_slices(addr_start + 14 + i * 7,
                                               addr_start + 14 + (i + 1) * 7,
                                               Len(bytes)) :
                                  i \in {j \in 0..(rpt_count - 1) :
                                            \A k \in 0..(j - 1) : parsed(k).ok}}
                         \cup
                    (IF ~route.ok THEN {}
                     ELSE {[from |-> control, to |-> Len(bytes),
                            of |-> Len(bytes)]}
                          \cup content_slices(Slice(bytes, control,
                                                    Len(bytes))))))

\* what from_bytes takes of bytes until it returns, frame.rs:434-486
from_bytes_slices(bytes) ==
    LET addr_start == Position(bytes, NonNull, 0)
        addr_end == Position(bytes, LowBitSet, 0)
        control == addr_end + 1
        rpt_count == (addr_end + 1 - addr_start - 14) \div 7
        dest == parse_address(Slice(bytes, addr_start, addr_start + 7))
        src_addr == parse_address(Slice(bytes, addr_start + 7, addr_start + 14))
        route == parse_route(bytes, addr_start, 0, rpt_count)
        parsed(i) == parse_address(Slice(bytes, addr_start + 14 + i * 7,
                                         addr_start + 14 + (i + 1) * 7))
    IN  IF addr_start < 0 \/ addr_end < 0 THEN {}
        ELSE IF addr_end - addr_start + 1 < 14 THEN {}
        ELSE IF control >= Len(bytes) THEN {}
        ELSE address_slices(addr_start, addr_start + 7, Len(bytes))
             \cup (IF ~dest.ok THEN {}
                   ELSE address_slices(addr_start + 7, addr_start + 14,
                                       Len(bytes))
                        \cup
                   (IF ~src_addr.ok THEN {}
                    ELSE UNION {address_slices(addr_start + 14 + i * 7,
                                               addr_start + 14 + (i + 1) * 7,
                                               Len(bytes)) :
                                  i \in {j \in 0..(rpt_count - 1) :
                                            \A k \in 0..(j - 1) : parsed(k).ok}}
                         \cup
                    (IF ~route.ok THEN {}
                     ELSE {[from |-> control, to |-> Len(bytes),
                            of |-> Len(bytes)]}
                          \cup content_slices(Slice(bytes, control,
                                                    Len(bytes))))))

(***************************************************************************)
(* FrameContent::encode, frame.rs:220-305, and Ax25Frame::to_bytes,         *)
(* frame.rs:489-509                                                        *)
(***************************************************************************)
\* v << n on a u8
Shl(v, n) == (v * (2 ^ n)) % 256

\* if flag { 1 << n } else { 0 }
Bit(flag, n) == IF flag THEN 2 ^ n ELSE 0

\* the control octet of the S frames: c, then P/F, then N(R)
SControl(c, poll_or_final, receive_sequence) ==
    BitOr(BitOr(c, Bit(poll_or_final, 4)), Shl(BitAnd(receive_sequence, 7), 5))

\* encode that leaves the P/F bit of the S and U frames clear
encode_NoPollBit(content) ==
    CASE content.kind = "Information" ->
           <<BitOr(BitOr(Shl(BitAnd(content.receive_sequence, 7), 5),
                         Bit(content.poll, 4)),
                   Shl(BitAnd(content.send_sequence, 7), 1)),
             to_byte(content.pid)>> \o content.info
      [] content.kind = "ReceiveReady" ->
           <<SControl(1, FALSE, content.receive_sequence)>>
      [] content.kind = "ReceiveNotReady" ->
           <<SControl(5, FALSE, content.receive_sequence)>>
      [] content.kind = "Reject" ->
           <<SControl(9, FALSE, content.receive_sequence)>>
      [] content.kind = "SetAsynchronousBalancedMode" -> <<47>>
      [] content.kind = "Disconnect" -> <<67>>
      [] content.kind = "DisconnectedMode" -> <<15>>
      [] content.kind = "UnnumberedAcknowledge" -> <<99>>
      [] content.kind = "FrameReject" ->
           <<135,
             BitOr(BitOr(Bit(content.z, 3), Bit(content.y, 2)),
                   BitOr(Bit(content.x, 1), Bit(content.w, 0))),
             BitOr(BitOr(Shl(BitAnd(content.receive_sequence, 7), 5),
                         Bit(content.command_response = "Response", 4)),
                   Shl(BitAnd(content.send_sequence, 7), 1)),
             content.rejected_control_field_raw>>
      [] content.kind = "UnnumberedInformation" ->
           <<3, to_byte(content.pid)>> \o content.info
      [] content.kind = "UnknownContent" -> content.raw

\* encode that shifts send_sequence as it is given
encode_NoSendMask(content) ==
    CASE content.kind = "Information" ->
           <<BitOr(BitOr(Shl(BitAnd(content.receive_sequence, 7), 5),
                         Bit(content.poll, 4)),
                   Shl(content.send_sequence, 1)),
             to_byte(content.pid)>> \o content.info
      [] content.kind = "ReceiveReady" ->
           <<SControl(1, content.poll_or_final, content.receive_sequence)>>
      [] content.kind = "ReceiveNotReady" ->
           <<SControl(5, content.poll_or_final, content.receive_sequence)>>
      [] content.kind = "Reject" ->
           <<SControl(9, content.poll_or_final, content.receive_sequence)>>
      [] content.kind = "SetAsynchronousBalancedMode" ->
           <<BitOr(47, Bit(content.poll, 4))>>
      [] content.kind = "Disconnect" -> <<BitOr(67, Bit(content.poll, 4))>>
      [] content.kind = "DisconnectedMode" ->
           <<BitOr(15, Bit(content.final_bit, 4))>>
      [] content.kind = "UnnumberedAcknowledge" ->
           <<BitOr(99, Bit(content.final_bit, 4))>>
      [] content.kind = "FrameReject" ->
           <<BitOr(135, Bit(content.final_bit, 4)),
             BitOr(BitOr(Bit(content.z, 3), Bit(content.y, 2)),
                   BitOr(Bit(content.x, 1), Bit(content.w, 0))),
             BitOr(BitOr(Shl(BitAnd(content.receive_sequence, 7), 5),
                         Bit(content.command_response = "Response", 4)),
                   Shl(content.send_sequence, 1)),
             content.rejected_control_field_raw>>
      [] content.kind = "UnnumberedInformation" ->
           <<BitOr(3, Bit(content.poll_or_final, 4)), to_byte(content.pid)>>
               \o content.info
      [] content.kind = "UnknownContent" -> content.raw

\* FrameContent::encode, frame.rs:220-305
encode(content) ==
    CASE content.kind = "Information" ->
           <<BitOr(BitOr(Shl(BitAnd(content.receive_sequence, 7), 5),
                         Bit(content.poll, 4)),
                   Shl(BitAnd(content.send_sequence, 7), 1)),
             to_byte(content.pid)>> \o content.info
      [] content.kind = "ReceiveReady" ->
           <<SControl(1, content.poll_or_final, content.receive_sequence)>>
      [] content.kind = "ReceiveNotReady" ->
           <<SControl(5, content.poll_or_final, content.receive_sequence)>>
      [] content.kind = "Reject" ->
           <<SControl(9, content.poll_or_final, content.receive_sequence)>>
      [] content.kind = "SetAsynchronousBalancedMode" ->
           <<BitOr(47, Bit(content.poll, 4))>>
      [] content.kind = "Disconnect" -> <<BitOr(67, Bit(content.poll, 4))>>
      [] content.kind = "DisconnectedMode" ->
           <<BitOr(15, Bit(content.final_bit, 4))>>
      [] content.kind = "UnnumberedAcknowledge" ->
           <<BitOr(99, Bit(content.final_bit, 4))>>
      [] content.kind = "FrameReject" ->
           <<BitOr(135, Bit(content.final_bit, 4)),
             BitOr(BitOr(Bit(content.z, 3), Bit(content.y, 2)),
                   BitOr(Bit(content.x, 1), Bit(content.w, 0))),
             BitOr(BitOr(Shl(BitAnd(content.receive_sequence, 7), 5),
                         Bit(content.command_response = "Response", 4)),
                   Shl(BitAnd(content.send_sequence, 7), 1)),
             content.rejected_control_field_raw>>
      [] content.kind = "UnnumberedInformation" ->
           <<BitOr(3, Bit(content.poll_or_final, 4)), to_byte(content.pid)>>
               \o content.info
      [] content.kind = "UnknownContent" -> content.raw

\* the for loop of frame.rs:498-504 from the i-th entry (1-based) on
RECURSIVE route_to_bytes(_, _)
route_to_bytes(route, i) ==
    IF i > Len(route) THEN <<>>
    ELSE address_to_bytes(route[i].repeater, route[i].has_repeated,
                          i = Len(route))
             \o route_to_bytes(route, i + 1)

\* to_bytes that writes a frame that is neither command nor response as a
\* response
to_bytes_NoneAsResponse(frame) ==
    LET dest_c_bit == frame.command_or_response = "Command"
        src_c_bit == frame.command_or_response # "Command"
    IN  address_to_bytes(frame.destination, dest_c_bit, FALSE)
            \o address_to_bytes(frame.source, src_c_bit, frame.route = <<>>)
            \o route_to_bytes(frame.route, 1)
            \o encode(frame.content)

\* Ax25Frame::to_bytes, frame.rs:489-509
to_bytes(frame) ==
    LET dest_c_bit == frame.command_or_response # "Response"
        src_c_bit == frame.command_or_response = "Response"
    IN  address_to_bytes(frame.destination, dest_c_bit, FALSE)
            \o address_to_bytes(frame.source, src_c_bit, frame.route = <<>>)
            \o route_to_bytes(frame.route, 1)
            \o encode(frame.content)

(***************************************************************************)
(* State                                                                   *)
(***************************************************************************)
VARIABLES
    buffer,     \* TcpKissInterface.buffer, kiss.rs:18
    prev,       \* history: the buffer before the last make_frame_from_buffer
    ret,        \* history: what the last make_frame_from_buffer returned
    frames,     \* history: the frames returned so far, in order
    stream,     \* history: every octet appended to the buffer, in order
    src,        \* who fills the buffer: "raw", "wire", "loop" or "tnc"; or
                \* the codec function the caller applies first
    payloads,   \* history: the payloads the peer wrote or send_frame was given
    cur,        \* history: the payload the peer is in the middle of writing
    wire,       \* rx_stream: octets the socket holds for the next reads
    sock,       \* the TCP connection: "open", "eof", "reset" or "shutdown"
    handles,    \* strong count of the Arc<Mutex<TncInner>> of Tnc, tnc.rs:209
    senders,    \* TncInner.senders, tnc.rs:238: channel ids in Vec order
    chans,      \* the mpsc channels made by incoming(), by id
    rpc,        \* where the reader thread of tnc.rs:249-266 is
    chunk,      \* reader: the n_bytes octets of buf, kiss.rs:40-44
    rbytes,     \* reader: bytes of tnc.rs:376
    x,          \* reader: x of tnc.rs:251
    ri,         \* reader: the index retain has come to in the Vec
    kept,       \* reader: the senders retain has kept so far
    bcast,      \* history: the items the reader has broadcast, in order
    tpc,        \* where each caller thread is in Tnc::send_frame / incoming
    tframe,     \* caller thread: the octets frame.to_bytes() gave, tnc.rs:370
    innerLock,  \* holder of the Mutex<TncInner> of tnc.rs:209, or 0
    txLock,     \* holder of TcpKissInterface.tx_stream, kiss.rs:16, or 0
    out,        \* tx_stream: every octet written to the socket, in order
    sentLog,    \* history: the calls of send_frame in the order of their lock
    op,         \* the codec functions applied so far, in order
    arg,        \* the input of the first of them
    res         \* the result of each of them, in order

kissVars == <<buffer, prev, ret, frames, stream, src, payloads, cur>>

tncVars ==
    <<wire, sock, handles, senders, chans, rpc, chunk, rbytes, x, ri, kept,
      bcast>>

callVars == <<tpc, tframe, innerLock, txLock, out, sentLog>>

pureVars == <<op, arg, res>>

vars == <<kissVars, tncVars, callVars, pureVars>>

NoCall == [called |-> FALSE, frame |-> None]

Returned(f) == [called |-> TRUE, frame |-> f]

\* octets of an arbitrary receive buffer: the four sentinels and one other
RawBytes == {1, FEND, FESC, TFEND, TFESC}

\* octets of the payloads a peer or a caller of send_frame sends
PayloadBytes == {1, FEND, FESC}

\* octets a peer may send before its first FEND
GarbageBytes == {1, FESC, TFEND}

\* KISS byte stuffing of one octet, as a conforming peer applies it
StuffByte(b) ==
    IF b = FEND THEN <<FESC, TFEND>>
    ELSE IF b = FESC THEN <<FESC, TFESC>>
    ELSE <<b>>

\* the last make_frame_from_buffer call found no frame
Drained == ret.called /\ ~ret.frame.some

\* no extraction has been tried on what the buffer holds now
Untouched == ~ret.called /\ frames = <<>>

\* a channel id incoming() has not used yet
NoChan == [reg |-> FALSE, rx |-> FALSE, queue |-> <<>>, regAt |-> 0]

\* a channel whose Receiver was dropped
DeadChan == [reg |-> TRUE, rx |-> FALSE, queue |-> <<>>, regAt |-> 0]

\* no item: the value of x before the first receive_frame returns
NoItem == [ok |-> FALSE, err |-> [kind |-> "none"]]

\* the handle's own state when the interface alone is exercised
TncIdle ==
    /\ wire = <<>>
    /\ sock = "open"
    /\ handles = 0
    /\ senders = <<>>
    /\ chans = [s \in 1..MaxSubs |-> NoChan]
    /\ rpc = "idle"
    /\ chunk = <<>>
    /\ rbytes = <<>>
    /\ x = NoItem
    /\ ri = 0
    /\ kept = <<>>
    /\ bcast = <<>>

\* no caller thread is inside the handle
CallIdle ==
    /\ tpc = [t \in 1..MaxThreads |-> "idle"]
    /\ tframe = [t \in 1..MaxThreads |-> <<>>]
    /\ innerLock = 0
    /\ txLock = 0
    /\ out = <<>>
    /\ sentLog = <<>>

\* no codec function has been applied
PureIdle ==
    /\ op = <<>>
    /\ arg = <<>>
    /\ res = <<>>

KissInit ==
    /\ CallIdle
    /\ PureIdle
    /\ buffer = <<>>
    /\ prev = <<>>
    /\ ret = NoCall
    /\ frames = <<>>
    /\ stream = <<>>
    /\ src \in {"raw", "wire", "loop"}
    /\ payloads = <<>>
    /\ cur = <<>>
    /\ TncIdle

\* an arbitrary octet arrives in the buffer (kiss.rs:47, one octet read)
RawByte ==
    /\ src = "raw" /\ Untouched
    /\ Len(buffer) < MaxLen
    /\ \E b \in RawBytes :
          /\ buffer' = Append(buffer, b)
          /\ stream' = Append(stream, b)
    /\ UNCHANGED <<callVars, pureVars>>
    /\ UNCHANGED <<prev, ret, frames, src, payloads, cur, tncVars>>

\* a conforming peer sends an octet before its first FEND
PeerGarbage ==
    /\ src = "wire" /\ Untouched
    /\ FEND \notin {stream[i] : i \in 1..Len(stream)}
    /\ Len(buffer) < MaxWire
    /\ \E b \in GarbageBytes :
          /\ buffer' = Append(buffer, b)
          /\ stream' = Append(stream, b)
    /\ UNCHANGED <<callVars, pureVars>>
    /\ UNCHANGED <<prev, ret, frames, src, payloads, cur, tncVars>>

\* a conforming peer sends a FEND, which ends the payload it was writing
PeerFend ==
    /\ src = "wire" /\ Untouched
    /\ Len(buffer) < MaxWire
    /\ buffer' = Append(buffer, FEND)
    /\ stream' = Append(stream, FEND)
    /\ payloads' = IF cur = <<>> THEN payloads ELSE Append(payloads, cur)
    /\ cur' = <<>>
    /\ UNCHANGED <<callVars, pureVars>>
    /\ UNCHANGED <<prev, ret, frames, src, tncVars>>

\* a conforming peer sends the next octet of a payload, byte-stuffed
PeerPayloadByte ==
    /\ src = "wire" /\ Untouched
    /\ stream # <<>> /\ FEND \in {stream[i] : i \in 1..Len(stream)}
    /\ \E b \in PayloadBytes :
          /\ Len(buffer) + Len(StuffByte(b)) <= MaxWire
          /\ buffer' = buffer \o StuffByte(b)
          /\ stream' = stream \o StuffByte(b)
          /\ cur' = Append(cur, b)
    /\ UNCHANGED <<callVars, pureVars>>
    /\ UNCHANGED <<prev, ret, frames, src, payloads, tncVars>>

\* send_frame(p) with the octets it writes looped back into the buffer
KissSend ==
    /\ src = "loop"
    /\ ~ret.called \/ Drained
    /\ Len(payloads) < MaxSends
    /\ \E p \in NonEmptySeqsUpTo(PayloadBytes, MaxPayloadLen) :
          /\ buffer' = buffer \o SendFrameBytes(p)
          /\ stream' = stream \o SendFrameBytes(p)
          /\ payloads' = Append(payloads, p)
    /\ ret' = NoCall
    /\ UNCHANGED <<callVars, pureVars>>
    /\ UNCHANGED <<prev, frames, src, cur, tncVars>>

\* one call of make_frame_from_buffer on the locked buffer, kiss.rs:35-38
KissExtract ==
    /\ ~Drained
    /\ LET r == make_frame_from_buffer(buffer)
       IN  /\ prev' = buffer
           /\ buffer' = r.buffer
           /\ ret' = Returned(r.frame)
           /\ frames' = IF r.frame.some THEN Append(frames, r.frame.val)
                         ELSE frames
    /\ UNCHANGED <<callVars, pureVars>>
    /\ UNCHANGED <<stream, src, payloads, cur, tncVars>>

KissNext ==
    \/ RawByte
    \/ PeerGarbage
    \/ PeerFend
    \/ PeerPayloadByte
    \/ KissSend
    \/ KissExtract

SpecKiss == KissInit /\ [][KissNext]_vars

(***************************************************************************)
(* The TNC fan-out handle over a TCP KISS transport, ax25_tnc tnc.rs        *)
(***************************************************************************)
\* an encoded address of a one-letter callsign, SSID 0
SampleAddr(letter, last) == <<letter * 2, 64, 64, 64, 64, 64, 96 + last>>

\* the AX.25 octets of the k-th frame of the peer TNC when it is well formed:
\* an RR frame with N(R) = k for odd k, a UI frame whose info is FEND, k for
\* even k, so that no two frames of a behaviour are equal
SampleRR(k) == SampleAddr(65, 0) \o SampleAddr(66, 1) \o <<1 + 32 * (k % 8)>>

SampleUI(k) == SampleAddr(67, 0) \o SampleAddr(68, 1) \o <<3, 240, FEND, k>>

\* octets that are no AX.25 frame
SampleBad == <<130, 3>>

PeerFrames(k) == {IF k % 2 = 1 THEN SampleRR(k) ELSE SampleUI(k), SampleBad}

\* KISS byte stuffing of a frame, as a conforming peer applies it
RECURSIVE KissStuff(_)
KissStuff(bytes) ==
    IF bytes = <<>> THEN <<>>
    ELSE StuffByte(Head(bytes)) \o KissStuff(Tail(bytes))

\* what a conforming peer puts on the wire for one frame
PeerKiss(bytes) == <<FEND, 0>> \o KissStuff(bytes) \o <<FEND>>

Min(a, b) == IF a < b THEN a ELSE b

Range(f) == {f[i] : i \in DOMAIN f}

\* Tnc::open, tnc.rs:213-219, and TncInner::new, tnc.rs:242-270: one handle,
\* no subscriber, the reader thread about to call receive_frame
TncInit ==
    /\ CallIdle
    /\ PureIdle
    /\ buffer = <<>>
    /\ prev = <<>>
    /\ ret = NoCall
    /\ frames = <<>>
    /\ stream = <<>>
    /\ src = "tnc"
    /\ payloads = <<>>
    /\ cur = <<>>
    /\ wire = <<>>
    /\ sock = "open"
    /\ handles = 1
    /\ senders = <<>>
    /\ chans = [s \in 1..MaxSubs |-> NoChan]
    /\ rpc = "extract"
    /\ chunk = <<>>
    /\ rbytes = <<>>
    /\ x = NoItem
    /\ ri = 0
    /\ kept = <<>>
    /\ bcast = <<>>

\* the peer TNC sends one KISS frame
PeerSend ==
    /\ src = "tnc" /\ sock = "open"
    /\ Len(payloads) < MaxPeerFrames
    /\ \E f \in PeerFrames(Len(payloads) + 1) :
          /\ wire' = wire \o PeerKiss(f)
          /\ payloads' = Append(payloads, f)
    /\ UNCHANGED <<callVars, pureVars>>
    /\ UNCHANGED <<buffer, prev, ret, frames, stream, src, cur, sock, handles,
                   senders, chans, rpc, chunk, rbytes, x, ri, kept, bcast>>

\* the peer closes the connection: reads return what is queued, then 0
PeerClose ==
    /\ src = "tnc" /\ sock = "open"
    /\ sock' = "eof"
    /\ UNCHANGED <<callVars, pureVars>>
    /\ UNCHANGED <<kissVars, wire, handles, senders, chans, rpc, chunk,
                   rbytes, x, ri, kept, bcast>>

\* the connection breaks: reads fail from now on
PeerReset ==
    /\ src = "tnc" /\ sock = "open"
    /\ sock' = "reset"
    /\ wire' = <<>>
    /\ UNCHANGED <<callVars, pureVars>>
    /\ UNCHANGED <<kissVars, handles, senders, chans, rpc, chunk, rbytes, x,
                   ri, kept, bcast>>

\* #[derive(Clone)] on Tnc, tnc.rs:208
CloneHandle ==
    /\ src = "tnc" /\ handles > 0 /\ handles < MaxHandles
    /\ handles' = handles + 1
    /\ UNCHANGED <<callVars, pureVars>>
    /\ UNCHANGED <<kissVars, wire, sock, senders, chans, rpc, chunk, rbytes,
                   x, ri, kept, bcast>>

\* TcpKissInterface::shutdown, called by TcpKissTnc::shutdown, tnc.rs:392-394:
\* both halves of the socket are closed
Shutdown(s) == IF s \in {"open", "eof"} THEN "shutdown" ELSE s

\* a Tnc is dropped; the last one drops TncInner, tnc.rs:287-291, and with
\* it the handle's Arc of the senders Vec
DropHandle ==
    /\ src = "tnc" /\ handles > 0
    /\ handles' = handles - 1
    /\ sock' = IF handles = 1 THEN Shutdown(sock) ELSE sock
    /\ senders' = IF handles = 1 /\ rpc = "done" THEN <<>> ELSE senders
    /\ UNCHANGED <<callVars, pureVars>>
    /\ UNCHANGED <<kissVars, wire, chans, rpc, chunk, rbytes, x, ri, kept, bcast>>

\* a senders mutex that excludes nobody
SendersLocked_Never == FALSE

\* a reader that takes the senders mutex before it calls receive_frame and
\* keeps it while it waits for the socket
SendersLocked_InReceive == rpc \in {"retain", "read"}

\* the reader holds the senders mutex from the lock() of tnc.rs:256 to the
\* end of that statement
SendersLocked == rpc = "retain"

\* Tnc::incoming, tnc.rs:229-231 and 280-284: push under the senders mutex
Incoming ==
    /\ src = "tnc" /\ handles > 0
    /\ ~SendersLocked
    /\ \E s \in 1..MaxSubs :
          /\ ~chans[s].reg
          /\ \A t \in 1..(s - 1) : chans[t].reg
          /\ chans' = [chans EXCEPT ![s] =
                 [reg |-> TRUE, rx |-> TRUE, queue |-> <<>>,
                  regAt |-> Len(bcast)]]
          /\ senders' = Append(senders, s)
    /\ UNCHANGED <<callVars, pureVars>>
    /\ UNCHANGED <<kissVars, wire, sock, handles, rpc, chunk, rbytes, x,
                   ri, kept, bcast>>

\* the caller drops a Receiver; what its channel still held goes with it
DropReceiver ==
    /\ src = "tnc"
    /\ \E s \in 1..MaxSubs :
          /\ chans[s].reg /\ chans[s].rx
          /\ chans' = [chans EXCEPT ![s] = DeadChan]
    /\ UNCHANGED <<callVars, pureVars>>
    /\ UNCHANGED <<kissVars, wire, sock, handles, senders, rpc, chunk,
                   rbytes, x, ri, kept, bcast>>

(***************************************************************************)
(* The reader thread, tnc.rs:249-266, inside TcpKissTnc::receive_frame,     *)
(* tnc.rs:374-383, inside TcpKissInterface::receive_frame, kiss.rs:32-50    *)
(***************************************************************************)
\* kiss.rs:35-38: try to take a frame out of the locked buffer
RExtract ==
    /\ rpc = "extract"
    /\ LET r == make_frame_from_buffer(buffer)
       IN  /\ prev' = buffer
           /\ buffer' = r.buffer
           /\ ret' = Returned(r.frame)
           /\ frames' = IF r.frame.some THEN Append(frames, r.frame.val)
                         ELSE frames
           /\ rbytes' = IF r.frame.some THEN r.frame.val ELSE rbytes
           /\ rpc' = IF r.frame.some THEN "parse" ELSE "read"
    /\ UNCHANGED <<callVars, pureVars>>
    /\ UNCHANGED <<stream, src, payloads, cur, wire, sock, handles, senders,
                   chans, chunk, x, ri, kept, bcast>>

\* how many octets one read may return when the socket holds w
ReadSizes(w) ==
    {Min(Len(w), ReadBufLen)} \cup (IF Len(w) > ShortRead THEN {ShortRead} ELSE {})

\* the io::Error of a failed read as the reader wraps it, tnc.rs:379, 253
ReceiveFrameError == Err([kind |-> "ReceiveFrame"])

\* kiss.rs:40-44: rx_stream.read(&mut buf)?: blocks while the connection is
\* open and idle; returns queued octets; returns 0 at end of stream; fails on
\* a broken connection. After a local shutdown the read returns 0 or fails,
\* as the platform has it
RRead ==
    /\ rpc = "read"
    /\ \/ /\ wire # <<>> /\ sock \in {"open", "eof", "shutdown"}
          /\ \E n \in ReadSizes(wire) :
                /\ chunk' = SubSeq(wire, 1, n)
                /\ wire' = SubSeq(wire, n + 1, Len(wire))
          /\ rpc' = "append"
          /\ x' = x
       \/ /\ wire = <<>> /\ sock \in {"eof", "shutdown"}
          /\ chunk' = <<>>
          /\ rpc' = "append"
          /\ UNCHANGED <<wire, x>>
       \/ /\ sock \in {"reset", "shutdown"}
          /\ x' = ReceiveFrameError
          /\ rpc' = "broadcast"
          /\ UNCHANGED <<wire, chunk>>
    /\ UNCHANGED <<callVars, pureVars>>
    /\ UNCHANGED <<kissVars, sock, handles, senders, chans, rbytes, ri, kept,
                   bcast>>

\* kiss.rs:45-48: buffer.extend(buf.iter().take(n_bytes)), then loop
RAppend ==
    /\ rpc = "append"
    /\ buffer' = buffer \o chunk
    /\ stream' = stream \o chunk
    /\ chunk' = <<>>
    /\ rpc' = "extract"
    /\ UNCHANGED <<callVars, pureVars>>
    /\ UNCHANGED <<prev, ret, frames, src, payloads, cur, wire, sock, handles,
                   senders, chans, rbytes, x, ri, kept, bcast>>

\* tnc.rs:380-382: a frame that parses is returned, any other is skipped and
\* the loop calls iface.receive_frame again
\* a receive loop that returns whatever it has when the octets do not parse
AfterParse_Always(parsed) == "broadcast"

\* tnc.rs:380-382: Ok(parsed) returns, anything else loops
AfterParse(parsed) == IF parsed.ok THEN "broadcast" ELSE "extract"

RParse ==
    /\ rpc = "parse"
    /\ LET parsed == from_bytes(rbytes)
       IN  /\ x' = IF parsed.ok THEN Ok(parsed.val) ELSE x
           /\ rpc' = AfterParse(parsed)
    /\ UNCHANGED <<callVars, pureVars>>
    /\ UNCHANGED <<kissVars, wire, sock, handles, senders, chans, chunk,
                   rbytes, ri, kept, bcast>>

\* a send that succeeds whether or not anyone can receive
SendOk_Always(ch, s) == TRUE

\* s.send(item) of tnc.rs:258 succeeds while the Receiver is alive
SendOk(ch, s) == ch[s].rx

\* a channel that hands out the newest item first
Enqueue_Front(queue, item) == <<item>> \o queue

\* what an mpsc channel holds after a successful send: first in, first out
Enqueue(queue, item) == Append(queue, item)

\* a reader that goes on reading after an error
AfterBroadcast_Continue(item) == "extract"

\* tnc.rs:260-262: an error ends the loop
AfterBroadcast(item) == IF item.ok THEN "extract" ELSE "clear"

\* tnc.rs:256: senders.lock().unwrap(), retain about to start
RLock ==
    /\ rpc = "broadcast"
    /\ rpc' = "retain"
    /\ ri' = 1
    /\ kept' = <<>>
    /\ bcast' = Append(bcast, x)
    /\ UNCHANGED <<callVars, pureVars>>
    /\ UNCHANGED <<kissVars, wire, sock, handles, senders, chans, chunk,
                   rbytes, x>>

\* tnc.rs:256-259: retain's closure on the next sender of the Vec
RSend ==
    /\ rpc = "retain" /\ ri <= Len(senders)
    /\ LET s == senders[ri]
       IN  IF SendOk(chans, s)
           THEN /\ chans' = [chans EXCEPT ![s].queue = Enqueue(@, x)]
                /\ kept' = Append(kept, s)
           ELSE UNCHANGED <<chans, kept>>
    /\ ri' = ri + 1
    /\ UNCHANGED <<callVars, pureVars>>
    /\ UNCHANGED <<kissVars, wire, sock, handles, senders, rpc, chunk,
                   rbytes, x, bcast>>

\* tnc.rs:259-262: retain is over, the guard is dropped, an error breaks
RUnlock ==
    /\ rpc = "retain" /\ ri > Len(senders)
    /\ senders' = kept
    /\ kept' = <<>>
    /\ ri' = 0
    /\ rpc' = AfterBroadcast(x)
    /\ UNCHANGED <<callVars, pureVars>>
    /\ UNCHANGED <<kissVars, wire, sock, handles, chans, chunk, rbytes, x,
                   bcast>>

\* tnc.rs:265: senders.lock().unwrap().clear(), and the thread ends
RClear ==
    /\ rpc = "clear"
    /\ senders' = <<>>
    /\ rpc' = "done"
    /\ UNCHANGED <<callVars, pureVars>>
    /\ UNCHANGED <<kissVars, wire, sock, handles, chans, chunk, rbytes, x,
                   ri, kept, bcast>>

Reader ==
    RExtract \/ RRead \/ RAppend \/ RParse \/ RLock \/ RSend \/ RUnlock \/ RClear

Next ==
    \/ PeerSend
    \/ PeerClose
    \/ PeerReset
    \/ CloneHandle
    \/ DropHandle
    \/ Incoming
    \/ DropReceiver
    \/ RExtract
    \/ RRead
    \/ RAppend
    \/ RParse
    \/ RLock
    \/ RSend
    \/ RUnlock
    \/ RClear

Spec == TncInit /\ [][Next]_vars

\* the reader is a thread of its own: it takes its next step whenever it
\* has one
FairSpec == Spec /\ WF_vars(Reader)

(***************************************************************************)
(* Address::to_bytes, frame.rs:319-336, one loop iteration at a time       *)
(***************************************************************************)
\* addresses with any callsign of letters Z and 9 set through the field
PadAddrs ==
    {Addr(cs, ssid, FALSE) : cs \in SeqsUpTo({90, 57}, MaxPadCall),
                             ssid \in {0, 15}}

PadInit ==
    /\ CallIdle
    /\ PureIdle
    /\ buffer = <<>>
    /\ prev = <<>>
    /\ ret = NoCall
    /\ frames = <<>>
    /\ stream = <<>>
    /\ src = "pad"
    /\ payloads = <<>>
    /\ cur = <<>>
    /\ TncIdle

\* frame.rs:320-324: the call, and the loop that shifts the callsign bytes
PadShift ==
    /\ op = <<>>
    /\ \E a \in PadAddrs, high_bit \in BOOLEAN, final \in BOOLEAN :
          /\ arg' = [addr |-> a, high_bit |-> high_bit,
                      final_in_address |-> final]
          /\ res' = <<[i \in 1..Len(as_bytes(a.callsign)) |->
                          Shl1(as_bytes(a.callsign)[i])]>>
    /\ op' = <<"shift">>
    /\ UNCHANGED <<kissVars, tncVars, callVars>>

\* frame.rs:326-328: one turn of while encoded.len() != 6. The Vec is
\* followed up to MaxEncoded octets; ri is the parity of the turns taken
PadPush ==
    /\ op = <<"shift">>
    /\ Len(res[1]) # 6
    /\ res' = IF Len(res[1]) < MaxEncoded
              THEN <<Append(res[1], Shl1(32))>>
              ELSE res
    /\ ri' = 1 - ri
    /\ UNCHANGED <<kissVars, callVars, op, arg>>
    /\ UNCHANGED <<wire, sock, handles, senders, chans, rpc, chunk, rbytes, x,
                   kept, bcast>>

\* frame.rs:329-335: the loop is left, the SSID octet pushed, the Vec
\* returned
PadReturn ==
    /\ op = <<"shift">>
    /\ Len(res[1]) = 6
    /\ LET high == IF arg.high_bit THEN 128 ELSE 0
           low == IF arg.final_in_address THEN 1 ELSE 0
       IN  res' = <<Append(res[1],
                           BitOr(BitOr(BitOr(Shl1(arg.addr.ssid), 96), high),
                                 low))>>
    /\ op' = <<"shift", "return">>
    /\ UNCHANGED <<kissVars, tncVars, callVars, arg>>

PadNext == PadShift \/ PadPush \/ PadReturn

SpecPad == PadInit /\ [][PadNext]_vars

\* the thread in to_bytes takes its next step whenever it has one
FairPad == SpecPad /\ WF_vars(PadPush \/ PadReturn)

(***************************************************************************)
(* Threads in TcpKissInterface::receive_frame, kiss.rs:32-50, on one       *)
(* interface: one caller, or two as Tnc::receive_frame and the reader      *)
(* thread of Tnc::new are (src/tnc.rs:183-194, 208-210)                    *)
(***************************************************************************)
\* the threads that call receive_frame
Receivers == IF src = "one" THEN {1} ELSE 1..MaxThreads

\* octets of the stream a single caller receives
ChunkBytes == {1, FEND, FESC, TFEND}

\* the streams two callers receive: a frame of 01 and 02 octets between
\* FENDs
SharedStreams ==
    {<<FEND>> \o p \o <<FEND>> : p \in NonEmptySeqsUpTo({1, 2}, MaxPayloadLen)}

\* TcpKissInterface::new, kiss.rs:22-30: an empty buffer; the peer has
\* written the stream the socket holds
ChunkInit ==
    /\ CallIdle
    /\ PureIdle
    /\ buffer = <<>>
    /\ prev = <<>>
    /\ ret = NoCall
    /\ frames = <<>>
    /\ stream = <<>>
    /\ src \in {"one", "two"}
    /\ payloads = <<>>
    /\ cur = <<>>
    /\ wire \in IF src = "one" THEN SeqsUpTo(ChunkBytes, MaxChunked)
                ELSE SharedStreams
    /\ sock = "open"
    /\ handles = 0
    /\ senders = <<>>
    /\ chans = [s \in 1..MaxSubs |-> NoChan]
    /\ rpc = "idle"
    /\ chunk = <<>>
    /\ rbytes = <<>>
    /\ x = NoItem
    /\ ri = 0
    /\ kept = <<>>
    /\ bcast = <<>>

\* a buffer that keeps only the newest chunk
Extend_Replace(buf, bytes) == bytes

\* buffer.extend(buf.iter().take(n_bytes)), kiss.rs:47
Extend(buf, bytes) == buf \o bytes

\* thread t calls receive_frame
RfCall(t) ==
    /\ t \in Receivers /\ tpc[t] = "idle"
    /\ tpc' = [tpc EXCEPT ![t] = "rf_extract"]
    /\ UNCHANGED <<kissVars, tncVars, pureVars>>
    /\ UNCHANGED <<tframe, innerLock, txLock, out, sentLog>>

\* kiss.rs:34-39: under the buffer mutex, take a frame out and return it,
\* or go on to read
RfExtract(t) ==
    /\ tpc[t] = "rf_extract"
    /\ LET r == make_frame_from_buffer(buffer)
       IN  /\ prev' = buffer
           /\ buffer' = r.buffer
           /\ ret' = Returned(r.frame)
           /\ frames' = IF r.frame.some THEN Append(frames, r.frame.val)
                         ELSE frames
           /\ tpc' = [tpc EXCEPT ![t] = IF r.frame.some THEN "idle"
                                        ELSE "rf_read"]
    /\ UNCHANGED <<tncVars, pureVars>>
    /\ UNCHANGED <<stream, src, payloads, cur>>
    /\ UNCHANGED <<tframe, innerLock, txLock, out, sentLog>>

\* kiss.rs:40-44: under the rx_stream mutex, one read, which returns any
\* number of the octets the socket holds, and blocks while it holds none
RfRead(t) ==
    /\ tpc[t] = "rf_read"
    /\ wire # <<>>
    /\ \E n \in 1..Min(Len(wire), ReadBufLen) :
          /\ tframe' = [tframe EXCEPT ![t] = SubSeq(wire, 1, n)]
          /\ cur' = cur \o SubSeq(wire, 1, n)
          /\ wire' = SubSeq(wire, n + 1, Len(wire))
    /\ tpc' = [tpc EXCEPT ![t] = "rf_append"]
    /\ UNCHANGED pureVars
    /\ UNCHANGED <<buffer, prev, ret, frames, stream, src, payloads>>
    /\ UNCHANGED <<sock, handles, senders, chans, rpc, chunk, rbytes, x, ri,
                   kept, bcast>>
    /\ UNCHANGED <<innerLock, txLock, out, sentLog>>

\* kiss.rs:45-48: under the buffer mutex again, append what was read, then
\* loop
RfAppend(t) ==
    /\ tpc[t] = "rf_append"
    /\ buffer' = Extend(buffer, tframe[t])
    /\ stream' = stream \o tframe[t]
    /\ tframe' = [tframe EXCEPT ![t] = <<>>]
    /\ tpc' = [tpc EXCEPT ![t] = "rf_extract"]
    /\ UNCHANGED <<tncVars, pureVars>>
    /\ UNCHANGED <<prev, ret, frames, src, payloads, cur>>
    /\ UNCHANGED <<innerLock, txLock, out, sentLog>>

ChunkNext ==
    \E t \in 1..MaxThreads :
        \/ RfCall(t)
        \/ RfExtract(t)
        \/ RfRead(t)
        \/ RfAppend(t)

SpecChunk == ChunkInit /\ [][ChunkNext]_vars

(***************************************************************************)
(* Caller threads in Tnc::send_frame, tnc.rs:223-225, and Tnc::incoming,    *)
(* tnc.rs:229-231, on one handle, beside the reader thread                 *)
(***************************************************************************)
Threads == 1..MaxThreads

\* a mutex that lets every lock() through
MutexFree_Always(holder) == TRUE

\* Mutex::lock returns once no thread holds the mutex
MutexFree(holder) == holder = 0

\* the frame thread t sends: RR with N(R) = t for odd t, UI whose info has a
\* FEND for even t
SendFrames(t) ==
    LET a == address_from_str(<<65, 45, 48>>).val
    IN  IF t % 2 = 1
        THEN {[source |-> a, destination |-> a, route |-> <<>>,
               content |-> [kind |-> "ReceiveReady",
                            receive_sequence |-> t % 8,
                            poll_or_final |-> FALSE],
               command_or_response |-> "Command"]}
        ELSE {[source |-> a, destination |-> a, route |-> <<>>,
               content |-> [kind |-> "UnnumberedInformation",
                            poll_or_final |-> FALSE, pid |-> Pid("None"),
                            info |-> <<FEND, t>>],
               command_or_response |-> "Response"]}

\* the peer TNC sends the one KISS frame it has for this handle
PeerSendFirst == payloads = <<>> /\ PeerSend

\* calls of send_frame made so far
SendCalls == Len(sentLog) + Cardinality({t \in Threads : tpc[t] \in {"send", "tx"}})

\* calls of incoming made so far
IncomingCalls ==
    Cardinality({s \in 1..MaxSubs : chans[s].reg})
        + Cardinality({t \in Threads : tpc[t] \in {"incoming", "push"}})

\* a thread calls tnc.send_frame(&frame); the octets are those that
\* frame.to_bytes() of tnc.rs:370 gives
SCall(t) ==
    /\ src = "tnc" /\ handles > 0
    /\ tpc[t] = "idle" /\ SendCalls + IncomingCalls < MaxSends
    /\ \E frame \in SendFrames(t) :
          tframe' = [tframe EXCEPT ![t] = to_bytes(frame)]
    /\ tpc' = [tpc EXCEPT ![t] = "send"]
    /\ UNCHANGED <<kissVars, tncVars, innerLock, txLock, out, sentLog, pureVars>>

\* tnc.rs:224: self.0.lock().unwrap()
SLockInner(t) ==
    /\ tpc[t] = "send" /\ MutexFree(innerLock)
    /\ innerLock' = t
    /\ tpc' = [tpc EXCEPT ![t] = "tx"]
    /\ UNCHANGED <<kissVars, tncVars, tframe, txLock, out, sentLog, pureVars>>

\* kiss.rs:53: self.tx_stream.lock().unwrap()
SLockTx(t) ==
    /\ tpc[t] = "tx" /\ MutexFree(txLock)
    /\ txLock' = t
    /\ sentLog' = Append(sentLog, [thread |-> t, frame |-> tframe[t], written |-> 0])
    /\ tpc' = [tpc EXCEPT ![t] = "w1"]
    /\ UNCHANGED <<kissVars, tncVars, tframe, innerLock, out, pureVars>>

\* the call of thread t in the log: the last one it started
CallOf(t) ==
    CHOOSE i \in 1..Len(sentLog) :
        /\ sentLog[i].thread = t
        /\ \A j \in (i + 1)..Len(sentLog) : sentLog[j].thread # t

\* tx_stream.write_all(octets)?: the octets go out and the call moves on to
\* next, or the write fails on a connection that is no longer open and the
\* call returns the error, dropping the tx_stream guard
WriteAll(t, octets, next) ==
    IF sock = "open"
    THEN /\ out' = out \o octets
         /\ sentLog' = [sentLog EXCEPT ![CallOf(t)].written = @ + Len(octets)]
         /\ tpc' = [tpc EXCEPT ![t] = next]
         /\ txLock' = IF next = "ret" THEN 0 ELSE txLock
    ELSE /\ tpc' = [tpc EXCEPT ![t] = "ret"]
         /\ txLock' = 0
         /\ UNCHANGED <<out, sentLog>>

\* kiss.rs:57: tx_stream.write_all(&[FEND, 0x00])?
SWriteOpen(t) ==
    /\ tpc[t] = "w1"
    /\ WriteAll(t, <<FEND, 0>>, "w2")
    /\ UNCHANGED <<kissVars, tncVars, tframe, innerLock, pureVars>>

\* kiss.rs:58: tx_stream.write_all(frame)?
SWriteFrame(t) ==
    /\ tpc[t] = "w2"
    /\ WriteAll(t, tframe[t], "w3")
    /\ UNCHANGED <<kissVars, tncVars, tframe, innerLock, pureVars>>

\* kiss.rs:59-61: tx_stream.write_all(&[FEND])?, flush, and the guard of
\* tx_stream is dropped on return
SWriteClose(t) ==
    /\ tpc[t] = "w3"
    /\ WriteAll(t, <<FEND>>, "ret")
    /\ UNCHANGED <<kissVars, tncVars, tframe, innerLock, pureVars>>

\* a thread calls tnc.incoming()
ICall(t) ==
    /\ src = "tnc" /\ handles > 0
    /\ tpc[t] = "idle" /\ IncomingCalls < MaxSubs
    /\ SendCalls + IncomingCalls < MaxSends
    /\ tpc' = [tpc EXCEPT ![t] = "incoming"]
    /\ UNCHANGED <<kissVars, tncVars, tframe, innerLock, txLock, out, sentLog,
                   pureVars>>

\* tnc.rs:230: self.0.lock().unwrap()
ILockInner(t) ==
    /\ tpc[t] = "incoming" /\ MutexFree(innerLock)
    /\ innerLock' = t
    /\ tpc' = [tpc EXCEPT ![t] = "push"]
    /\ UNCHANGED <<kissVars, tncVars, tframe, txLock, out, sentLog, pureVars>>

\* tnc.rs:281-282: channel(), then self.senders.lock().unwrap().push(sender)
IPush(t) ==
    /\ tpc[t] = "push" /\ ~SendersLocked
    /\ \E s \in 1..MaxSubs :
          /\ ~chans[s].reg
          /\ \A u \in 1..(s - 1) : chans[u].reg
          /\ chans' = [chans EXCEPT ![s] =
                 [reg |-> TRUE, rx |-> TRUE, queue |-> <<>>,
                  regAt |-> Len(bcast)]]
          /\ senders' = Append(senders, s)
    /\ tpc' = [tpc EXCEPT ![t] = "ret"]
    /\ UNCHANGED <<kissVars, wire, sock, handles, rpc, chunk, rbytes, x, ri,
                   kept, bcast>>
    /\ UNCHANGED <<tframe, innerLock, txLock, out, sentLog, pureVars>>

\* tnc.rs:224, 230: the statement ends and the guard of the TncInner mutex
\* is dropped
CallReturn(t) ==
    /\ tpc[t] = "ret"
    /\ innerLock' = 0
    /\ tpc' = [tpc EXCEPT ![t] = "idle"]
    /\ UNCHANGED <<kissVars, tncVars, tframe, txLock, out, sentLog, pureVars>>

\* the steps of a call that has been made
InCall(t) ==
    \/ SLockInner(t)
    \/ SLockTx(t)
    \/ SWriteOpen(t)
    \/ SWriteFrame(t)
    \/ SWriteClose(t)
    \/ ILockInner(t)
    \/ IPush(t)
    \/ CallReturn(t)

SendNext ==
    \/ PeerSendFirst
    \/ PeerReset
    \/ \E t \in Threads : SCall(t)
    \/ \E t \in Threads : SLockInner(t)
    \/ \E t \in Threads : SLockTx(t)
    \/ \E t \in Threads : SWriteOpen(t)
    \/ \E t \in Threads : SWriteFrame(t)
    \/ \E t \in Threads : SWriteClose(t)
    \/ \E t \in Threads : ICall(t)
    \/ \E t \in Threads : ILockInner(t)
    \/ \E t \in Threads : IPush(t)
    \/ \E t \in Threads : CallReturn(t)
    \/ RExtract
    \/ RRead
    \/ RAppend
    \/ RParse
    \/ RLock
    \/ RSend
    \/ RUnlock
    \/ RClear

SpecSend == TncInit /\ [][SendNext]_vars

\* the statement of tnc.rs:256-259 once the reader has the senders mutex:
\* retain sends on channels that never block, and the guard is dropped
Retain == RSend \/ RUnlock

\* a thread that is not waiting for anything runs: each caller inside a call
\* takes its next step whenever it has one, and so does the reader inside
\* retain; nothing is assumed of the reader inside receive_frame
FairSend ==
    SpecSend /\ WF_vars(Retain) /\ \A t \in Threads : WF_vars(InCall(t))

(***************************************************************************)
(* The frame codec of frame.rs applied to inputs of the caller's choice     *)
(***************************************************************************)
\* the largest u8
OctetMax == 255

Octet == 0..OctetMax

\* every value of the enum ProtocolIdentifier, frame.rs:43-60
Pids ==
    {Pid("Layer3Impl")} \cup {Pid(PidTable[i][2]) : i \in 1..Len(PidTable)}
        \cup {PidUnknown(b) : b \in Octet}

\* the functions a caller applies first; src names the one of this behaviour
CodecFns ==
    {"from_byte", "to_byte", "Address::to_bytes", "from_str",
     "TncAddress::from_str"}

\* the caller's first call is f
Calls(f) == src = f /\ op = <<>>

\* the state a codec function is applied in: nothing else runs
CodecInit ==
    /\ buffer = <<>>
    /\ prev = <<>>
    /\ ret = NoCall
    /\ frames = <<>>
    /\ stream = <<>>
    /\ src \in CodecFns
    /\ payloads = <<>>
    /\ cur = <<>>
    /\ TncIdle
    /\ CallIdle
    /\ PureIdle

\* ProtocolIdentifier::from_byte on an octet, or on what to_byte just gave
ApplyFromByte ==
    /\ op' = Append(op, "from_byte")
    /\ \/ /\ Calls("from_byte")
          /\ \E b \in Octet : arg' = b /\ res' = <<from_byte(b)>>
       \/ /\ op = <<"to_byte">>
          /\ arg' = arg
          /\ res' = Append(res, from_byte(res[1]))
    /\ UNCHANGED <<kissVars, tncVars, callVars>>

\* ProtocolIdentifier::to_byte on a value, or on what from_byte just gave
ApplyToByte ==
    /\ op' = Append(op, "to_byte")
    /\ \/ /\ Calls("to_byte")
          /\ \E p \in Pids : arg' = p /\ res' = <<to_byte(p)>>
       \/ /\ op = <<"from_byte">>
          /\ arg' = arg
          /\ res' = Append(res, to_byte(res[1]))
    /\ UNCHANGED <<kissVars, tncVars, callVars>>

\* the longest callsign an address holds, frame.rs:326
CallsignLen == 6

\* the largest SSID, frame.rs:380
SsidMax == 15

\* the characters of the callsigns encoded: 'Z' and '9'
UpperAlnumChars == {90, 57}

\* the addresses of the claim: callsign of 1..=6 uppercase alphanumerics
WellFormedAddrs ==
    {Addr(cs, ssid, c) : cs \in NonEmptySeqsUpTo(UpperAlnumChars, CallsignLen),
                         ssid \in 0..SsidMax, c \in BOOLEAN}

\* addresses built through the public fields: a callsign of 0, 1 or 6 bytes
\* (Z, VK7NTK, three e-acute) and any u8 as ssid
AnySsidAddrs ==
    {Addr(cs, ssid, FALSE) :
        cs \in {<<>>, <<90>>, <<86, 75, 55, 78, 84, 75>>, <<233, 233, 233>>},
        ssid \in Octet}

\* Address::to_bytes on an address the caller built
ApplyAddressToBytes ==
    /\ op' = <<"Address::to_bytes">>
    /\ Calls("Address::to_bytes")
    /\ \E a \in WellFormedAddrs \cup AnySsidAddrs, high_bit \in BOOLEAN, final \in BOOLEAN :
          /\ arg' = [addr |-> a, high_bit |-> high_bit,
                      final_in_address |-> final]
          /\ res' = <<address_to_bytes(a, high_bit, final)>>
    /\ UNCHANGED <<kissVars, tncVars, callVars>>

\* parse_address on the seven octets Address::to_bytes gave
ApplyParseAddress ==
    /\ op' = Append(op, "parse_address")
    /\ op = <<"Address::to_bytes">>
    /\ arg' = arg
    /\ res' = Append(res, parse_address(res[1]))
    /\ UNCHANGED <<kissVars, tncVars, callVars>>

\* characters of the first part of the texts parsed: 'a', '7', e-acute, ' '
CallChars == {97, 55, 233, 32}

\* first parts that are longer: VK7NTK, VK7NTKX, four e-acute, sharp s
LongCalls ==
    {<<86, 75, 55, 78, 84, 75>>, <<86, 75, 55, 78, 84, 75, 88>>,
     <<233, 233, 233, 233>>, <<223>>}

CallTexts == SeqsUpTo(CallChars, MaxCallLen) \cup LongCalls

\* characters of the second part: '0', '1', '5', '6', '+'
SsidChars == {48, 49, 53, 54, 43}

SsidTexts == SeqsUpTo(SsidChars, MaxSsidLen)

\* the texts given to from_str: one, two or three parts
AddressTexts ==
    CallTexts
        \cup {c \o <<45>> \o t : c \in CallTexts, t \in SsidTexts}
        \cup {c \o <<45>> \o t \o <<45, 49>> :
                c \in CallTexts, t \in SeqsUpTo(SsidChars, 1)}

\* Address::from_str on a text, or on what Display just wrote
ApplyFromStr ==
    /\ op' = Append(op, "from_str")
    /\ \/ /\ Calls("from_str")
          /\ \E str \in AddressTexts :
                arg' = str /\ res' = <<address_from_str(str)>>
       \/ /\ op = <<"from_str", "fmt">>
          /\ arg' = arg
          /\ res' = Append(res, address_from_str(res[2]))
    /\ UNCHANGED <<kissVars, tncVars, callVars>>

\* Display on the address from_str just returned
ApplyFmt ==
    /\ op' = Append(op, "fmt")
    /\ op = <<"from_str">> /\ res[1].ok
    /\ arg' = arg
    /\ res' = Append(res, address_fmt(res[1].val))
    /\ UNCHANGED <<kissVars, tncVars, callVars>>

\* the part before the first colon: tnc, fish, tn, or nothing
FirstWords == {<<116, 110, 99>>, <<102, 105, 115, 104>>, <<116, 110>>, <<>>}

\* the TNC type: tcpkiss, linuxif, fish, tcpkis, Tcpkiss, or nothing
TypeWords ==
    {TcpKissWord, LinuxIfWord, <<102, 105, 115, 104>>,
     <<116, 99, 112, 107, 105, 115>>, <<84, 99, 112, 107, 105, 115, 115>>,
     <<>>}

\* parameters: a, nothing, 0, 65535, 65536, +8, -1, 1x
ParamWords ==
    {<<97>>, <<>>, <<48>>, <<54, 53, 53, 51, 53>>, <<54, 53, 53, 51, 54>>,
     <<43, 56>>, <<45, 49>>, <<49, 120>>}

\* the words with a colon between each two
RECURSIVE JoinColon(_)
JoinColon(words) ==
    IF Len(words) = 1 THEN words[1]
    ELSE words[1] \o <<58>> \o JoinColon(Tail(words))

\* the texts given to TncAddress::from_str
TncTexts ==
    FirstWords
    \cup {JoinColon(<<f, t>> \o ps) :
            f \in FirstWords, t \in TypeWords,
            ps \in SeqsUpTo(ParamWords, MaxParams)}

\* TncAddress::from_str on a text
ApplyTncFromStr ==
    /\ op' = <<"TncAddress::from_str">>
    /\ Calls("TncAddress::from_str")
    /\ \E str \in TncTexts :
          arg' = str /\ res' = <<tnc_address_from_str(str)>>
    /\ UNCHANGED <<kissVars, tncVars, callVars>>

CodecNext ==
    \/ ApplyTncFromStr
    \/ ApplyFromByte
    \/ ApplyToByte
    \/ ApplyAddressToBytes
    \/ ApplyParseAddress
    \/ ApplyFromStr
    \/ ApplyFmt

SpecCodec == CodecInit /\ [][CodecNext]_vars

(***************************************************************************)
(* Frames: Ax25Frame::from_bytes and Ax25Frame::to_bytes applied by a      *)
(* caller, each alone or on what the other returned                        *)
(***************************************************************************)
\* null octets put before a frame
MaxNulls == 1

\* repeaters in an address field
MaxRoute == 1

\* octets after the control octet
MaxTail == 3

\* what the caller does first: from_bytes, to_bytes, ("nulls") from_bytes
\* on octets it then decodes again behind null octets, or encode
FrameFns == {"from_bytes", "to_bytes", "nulls", "encode", "damaged"}

FrameInit ==
    /\ buffer = <<>>
    /\ prev = <<>>
    /\ ret = NoCall
    /\ frames = <<>>
    /\ stream = <<>>
    /\ src \in FrameFns
    /\ payloads = <<>>
    /\ cur = <<>>
    /\ TncIdle
    /\ CallIdle
    /\ PureIdle

\* six callsign octets on the wire: "A", "A B", " A", all spaces
WireCalls ==
    {<<130, 64, 64, 64, 64, 64>>, <<130, 64, 132, 64, 64, 64>>,
     <<64, 130, 64, 64, 64, 64>>, <<64, 64, 64, 64, 64, 64>>}

\* seventh octets with the low bit clear: C bit, both reserved bits or
\* neither, SSID 0 or 15
SsidOctets == {c * 128 + r * 32 + s * 2 : c \in {0, 1}, r \in {0, 3}, s \in {0, 15}}

\* a repeater "R" with SSID 1 on the wire, its H bit as given
WireRepeater(h) == <<164, 64, 64, 64, 64, 64, 98 + (IF h THEN 128 ELSE 0)>>

RECURSIVE Flatten(_)
Flatten(ss) == IF ss = <<>> THEN <<>> ELSE Head(ss) \o Flatten(Tail(ss))

\* an octet with the low bit set that is not the seventh of an address
StrayEnd == 131

\* an address field: destination, source and repeaters; the low bit that
\* ends it is set on the last address, or on an octet that follows it
WireAddressField(dest, source, hops, stray) ==
    LET field == dest \o source
                     \o Flatten([i \in 1..Len(hops) |-> WireRepeater(hops[i])])
    IN  IF stray THEN field \o <<StrayEnd>>
        ELSE [field EXCEPT ![Len(field)] = @ + 1]

WireAddressFields ==
    {WireAddressField(dc \o <<ds>>, <<132, 64, 64, 64, 64, 64, ss>>, hops, stray) :
        dc \in WireCalls, ds \in SsidOctets, ss \in SsidOctets,
        hops \in SeqsUpTo(BOOLEAN, MaxRoute), stray \in BOOLEAN}

\* the address field "A-0" to "B-0" of a command
PlainAddressField ==
    WireAddressField(<<130, 64, 64, 64, 64, 64, 224>>,
                     <<132, 64, 64, 64, 64, 64, 96>>, <<>>, FALSE)

\* octets that follow the control octet: 0, a nibble, the two Layer 3
\* octets 0x10 and 0x20, 0xF0
TailOctets == {0, 10, 16, 32, 240}

\* every control octet with every short tail
WireContents ==
    {<<c>> \o t : c \in Octet, t \in SeqsUpTo(TailOctets, MaxTail)}

\* nothing at all, RR, and UI with one octet of information
PlainContents == {<<>>, <<1>>, <<3, 240, 72>>}

RECURSIVE Nulls(_)
Nulls(n) == IF n = 0 THEN <<>> ELSE <<0>> \o Nulls(n - 1)

\* the octet sequences given to from_bytes
FrameOctets ==
    {Nulls(n) \o a \o c :
        n \in 0..MaxNulls, a \in WireAddressFields, c \in PlainContents}
    \cup {PlainAddressField \o c : c \in WireContents}
    \cup SeqsUpTo({0, 1, 130}, 2)

\* the octet sequences decoded a second time behind null octets
NullTestOctets ==
    {a \o c : a \in WireAddressFields, c \in PlainContents}
    \cup {PlainAddressField \o <<c>> : c \in Octet}
    \cup SeqsUpTo({0, 1, 130}, 2)

\* the texts the caller's addresses are parsed from: A-0, z9-15, VK7NTK-1
CallerTexts ==
    {<<65, 45, 48>>, <<122, 57, 45, 49, 53>>,
     <<86, 75, 55, 78, 84, 75, 45, 49>>}

CallerAddrs == {address_from_str(t).val : t \in CallerTexts}

\* sequence numbers the caller uses
SeqNums == {0, 5, 7}

\* canonical protocol identifiers the caller uses
CallerPids == {Pid("None"), Pid("Layer3Impl"), PidUnknown(69)}

CallerInfos == {<<>>, <<72, FEND>>}

\* contents of every known variant
CallerContents ==
    {[kind |-> "Information", receive_sequence |-> r, send_sequence |-> s,
      poll |-> p, pid |-> pid, info |-> i] :
        r \in SeqNums, s \in SeqNums, p \in BOOLEAN, pid \in CallerPids,
        i \in CallerInfos}
    \cup {[kind |-> k, receive_sequence |-> r, poll_or_final |-> p] :
            k \in {"ReceiveReady", "ReceiveNotReady", "Reject"},
            r \in SeqNums, p \in BOOLEAN}
    \cup {[kind |-> k, poll |-> p] :
            k \in {"SetAsynchronousBalancedMode", "Disconnect"},
            p \in BOOLEAN}
    \cup {[kind |-> k, final_bit |-> p] :
            k \in {"DisconnectedMode", "UnnumberedAcknowledge"},
            p \in BOOLEAN}
    \cup {[kind |-> "FrameReject", final_bit |-> p,
           rejected_control_field_raw |-> raw, z |-> zy, y |-> zy,
           x |-> xw, w |-> ~xw, receive_sequence |-> r,
           command_response |-> cr, send_sequence |-> 7 - r] :
            p \in BOOLEAN, raw \in {0, 255}, zy \in BOOLEAN, xw \in BOOLEAN,
            r \in SeqNums, cr \in {"Command", "Response"}}
    \cup {[kind |-> "UnnumberedInformation", poll_or_final |-> p,
           pid |-> pid, info |-> i] :
            p \in BOOLEAN, pid \in CallerPids, i \in CallerInfos}

\* the frames a caller builds from well-formed parts
CallerFrames ==
    {[source |-> s, destination |-> d, route |-> r, content |-> c,
      command_or_response |-> cr] :
        s \in {address_from_str(<<65, 45, 48>>).val}, d \in CallerAddrs,
        r \in SeqsUpTo([has_repeated : BOOLEAN, repeater : CallerAddrs],
                       MaxRoute),
        c \in CallerContents, cr \in {"Command", "Response"}}
    \cup
    \* frames whose command_or_response is None
    {[source |-> s, destination |-> d, route |-> <<>>, content |-> c,
      command_or_response |-> "None"] :
        s \in {address_from_str(<<65, 45, 48>>).val}, d \in CallerAddrs,
        c \in {k \in CallerContents : k.kind \in {"ReceiveReady", "Disconnect"}}}

\* whole frames on the wire: RR, I without information, UI, FRMR, and an
\* FRMR that is too short
WholeFrames ==
    {Nulls(n) \o WireAddressField(<<130, 64, 64, 64, 64, 64, 224>>,
                                  <<132, 64, 64, 64, 64, 64, 96>>, hops, FALSE)
              \o c :
        n \in 0..MaxNulls, hops \in SeqsUpTo(BOOLEAN, MaxRoute),
        c \in {<<1>>, <<0, 240>>, <<3, 240, 72>>, <<135, 1, 2, 3>>,
               <<135, 1>>}}

\* frames cut short at any octet, and frames with one octet replaced by
\* 0, 1 or 255
DamagedOctets ==
    UNION {{SubSeq(f, 1, k) : k \in 0..Len(f)} : f \in WholeFrames}
    \cup UNION {{[f EXCEPT ![i] = v] : i \in 1..Len(f), v \in {0, 1, 255}} :
                 f \in WholeFrames}

\* Ax25Frame::from_bytes on octets, or on what to_bytes just returned
ApplyFromBytes ==
    /\ op' = Append(op, "from_bytes")
    /\ \/ /\ Calls("from_bytes")
          /\ \E bytes \in FrameOctets :
                arg' = bytes /\ res' = <<from_bytes(bytes)>>
       \/ /\ Calls("nulls")
          /\ \E bytes \in NullTestOctets :
                arg' = bytes /\ res' = <<from_bytes(bytes)>>
       \/ /\ Calls("damaged")
          /\ \E bytes \in DamagedOctets :
                arg' = bytes /\ res' = <<from_bytes(bytes)>>
       \/ /\ op = <<"to_bytes">>
          /\ arg' = arg
          /\ res' = Append(res, from_bytes(res[1]))
    /\ UNCHANGED <<kissVars, tncVars, callVars>>

\* Ax25Frame::from_bytes on the octets just decoded, with null octets put
\* before them
ApplyFromBytesNulls ==
    /\ op' = Append(op, "from_bytes")
    /\ src = "nulls" /\ op = <<"from_bytes">>
    /\ arg' = arg
    /\ \E n \in 1..MaxNulls :
          res' = Append(res, from_bytes(Nulls(n) \o arg))
    /\ UNCHANGED <<kissVars, tncVars, callVars>>

\* Ax25Frame::to_bytes on a caller's frame, or on the frame from_bytes just
\* returned
\* routes of one or two repeaters, one of them with any u8 as ssid
WideSsidRoutes ==
    UNION {LET wide == [has_repeated |-> h,
                        repeater |-> Addr(<<90>>, ssid, FALSE)]
               plain == [has_repeated |-> ~h,
                         repeater |-> Addr(<<66>>, 1, FALSE)]
           IN  {<<wide>>, <<wide, plain>>, <<plain, wide>>} :
           ssid \in Octet, h \in BOOLEAN}

\* frames a caller builds with the ssid field of a repeater set directly
WideSsidFrames ==
    {[source |-> Addr(<<65>>, 0, FALSE), destination |-> Addr(<<66>>, 2, FALSE),
      route |-> r,
      content |-> [kind |-> "Disconnect", poll |-> TRUE],
      command_or_response |-> "Command"] : r \in WideSsidRoutes}

ApplyToBytes ==
    /\ op' = Append(op, "to_bytes")
    /\ \/ /\ Calls("to_bytes")
          /\ \E frame \in CallerFrames \cup WideSsidFrames :
                arg' = frame /\ res' = <<to_bytes(frame)>>
       \/ /\ src = "from_bytes" /\ op = <<"from_bytes">> /\ res[1].ok
          /\ arg' = arg
          /\ res' = Append(res, to_bytes(res[1].val))
    /\ UNCHANGED <<kissVars, tncVars, callVars>>

\* values of a sequence number field beside the whole range of the other
SeqSamples == {0, 5, 8, 255}

\* pairs of receive_sequence and send_sequence, any u8 each
SeqPairs == (Octet \X SeqSamples) \cup (SeqSamples \X Octet)

\* the contents that carry sequence numbers, with any u8 in them
SeqContents ==
    {[kind |-> "Information", receive_sequence |-> rs[1],
      send_sequence |-> rs[2], poll |-> p, pid |-> Pid("None"),
      info |-> <<>>] : rs \in SeqPairs, p \in BOOLEAN}
    \cup {[kind |-> k, receive_sequence |-> r, poll_or_final |-> p] :
            k \in {"ReceiveReady", "ReceiveNotReady", "Reject"},
            r \in Octet, p \in BOOLEAN}
    \cup {[kind |-> "FrameReject", final_bit |-> p,
           rejected_control_field_raw |-> 0, z |-> FALSE, y |-> FALSE,
           x |-> FALSE, w |-> TRUE, receive_sequence |-> rs[1],
           command_response |-> cr, send_sequence |-> rs[2]] :
            rs \in SeqPairs, p \in BOOLEAN, cr \in {"Command", "Response"}}

\* FrameContent::encode on a content the caller built
ApplyEncode ==
    /\ op' = <<"encode">>
    /\ Calls("encode")
    /\ \E content \in SeqContents :
          arg' = content /\ res' = <<encode(content)>>
    /\ UNCHANGED <<kissVars, tncVars, callVars>>

\* parse_content on the octets encode just returned
ApplyParseContent ==
    /\ op' = Append(op, "parse_content")
    /\ op = <<"encode">>
    /\ arg' = arg
    /\ res' = Append(res, parse_content(res[1]))
    /\ UNCHANGED <<kissVars, tncVars, callVars>>

FrameNext ==
    \/ ApplyEncode
    \/ ApplyParseContent
    \/ ApplyFromBytes
    \/ ApplyFromBytesNulls
    \/ ApplyToBytes

SpecFrame == FrameInit /\ [][FrameNext]_vars

(***************************************************************************)
(* Claims about the KISS framer, checked under SpecKiss                    *)
(***************************************************************************)
Octets(s) == {s[i] : i \in 1..Len(s)}

\* a sequence of n FEND octets
FendRun(n) == [i \in 1..n |-> FEND]

\* how many FEND octets end the sequence s
RECURSIVE TrailingFends(_)
TrailingFends(s) ==
    IF s = <<>> \/ s[Len(s)] # FEND THEN 0
    ELSE 1 + TrailingFends(SubSeq(s, 1, Len(s) - 1))

\* C6: whenever make_frame_from_buffer returns a frame, the buffer afterwards
\* is the suffix of the previous buffer that starts at the FEND which ended
\* that frame: cut right after that FEND the previous buffer yields the same
\* frame, cut right before it it yields none.
C6_CommitKeepsFend ==
    (ret.called /\ ret.frame.some) =>
        \E n \in 1..Len(prev) :
            /\ prev[n] = FEND
            /\ buffer = SubSeq(prev, n, Len(prev))
            /\ make_frame_from_buffer(SubSeq(prev, 1, n)).frame = ret.frame
            /\ ~make_frame_from_buffer(SubSeq(prev, 1, n - 1)).frame.some

\* a frame was returned and octets followed the FEND that ended it
C6_Witness ==
    /\ ret.called /\ ret.frame.some
    /\ Len(buffer) >= 3 /\ buffer[1] = FEND /\ buffer[2] # FEND
    /\ Len(prev) > Len(buffer) + 1

\* C7: when make_frame_from_buffer returns None the buffer is unchanged.
C7_NoneLeavesBuffer == Drained => buffer = prev

\* None was returned for a buffer holding garbage and then a partial frame
C7_Witness ==
    /\ Drained
    /\ Len(prev) >= 3 /\ prev[1] # FEND /\ prev[2] = FEND /\ prev[3] = 1

\* C8: no frame returned by make_frame_from_buffer is empty.
C8_NoEmptyFrame ==
    /\ ret.frame.some => ret.frame.val # <<>>
    /\ \A i \in 1..Len(frames) : frames[i] # <<>>

\* a frame was returned from a buffer with consecutive FENDs before it and
\* consecutive FENDs after it
C8_Witness ==
    /\ ret.called /\ ret.frame.some
    /\ Len(prev) >= 2 /\ prev[1] = FEND /\ prev[2] = FEND
    /\ Len(buffer) >= 2 /\ buffer[1] = FEND /\ buffer[2] = FEND

\* the peer has written a complete well-formed stream and extraction has
\* run until it found no frame
WireDone ==
    /\ src = "wire" /\ Drained
    /\ payloads # <<>> /\ cur = <<>>

\* C9 as stated: from a well-formed stream of k payloads, k calls return the
\* payloads in order, a further call returns None and the buffer is then
\* the single octet FEND.
C9_Original == WireDone => (frames = payloads /\ buffer = <<FEND>>)

\* C9 amended: the same, the buffer being then the run of FEND octets that
\* ends the stream.
C9_WellFormedStream ==
    /\ WireDone => (frames = payloads /\ buffer = FendRun(TrailingFends(stream)))
    /\ (src = "wire" /\ cur = <<>>) =>
           (Len(frames) <= Len(payloads)
            /\ frames = SubSeq(payloads, 1, Len(frames)))

\* two payloads, one of them holding a FEND, after garbage, all extracted
C9_Witness ==
    /\ WireDone
    /\ Len(payloads) = 2 /\ frames = payloads
    /\ stream[1] # FEND
    /\ \E i \in 1..2 : FEND \in Octets(payloads[i])

\* C10: the octets send_frame writes for a payload, run through the receive
\* extraction, give the payload back (after the KISS command octet 0x00).
C10_EscapeFidelity ==
    (src = "loop" /\ Drained) =>
        frames = [i \in 1..Len(payloads) |-> <<0>> \o payloads[i]]

\* C11: the octets send_frame(F) writes are FEND, 0x00, the octets of F with
\* FEND written as FESC TFEND and FESC as FESC TFESC, then FEND; so the
\* socket holds, call after call, the stuffed KISS frames of the payloads.
C11_TransmitFormat ==
    src = "loop" =>
        stream = Flatten([i \in 1..Len(payloads) |-> PeerKiss(payloads[i])])

(***************************************************************************)
(* Claims about the TNC fan-out handle, checked under Spec and FairSpec    *)
(***************************************************************************)
\* the subscription s exists and its Receiver has not been dropped
Live(s) == chans[s].reg /\ chans[s].rx

Last(q) == q[Len(q)]

\* the place of sender s in the Vec, or 0
IndexIn(list, s) ==
    IF s \in Range(list) THEN CHOOSE i \in 1..Len(list) : list[i] = s ELSE 0

\* retain has started on the newest item and has not come to s yet
Pending(s) == rpc = "retain" /\ IndexIn(senders, s) >= ri

\* the items broadcast since s registered, up to where retain has come
Expected(s) ==
    SubSeq(bcast, chans[s].regAt + 1,
           Len(bcast) - (IF Pending(s) THEN 1 ELSE 0))

\* the items of q that are frames / the position of q's errors
OkPart(q) == SelectSeq(q, LAMBDA it : it.ok)

ErrorsLast(q) == \A i \in 1..Len(q) : ~q[i].ok => i = Len(q)

\* C1: subscriptions registered before the transport delivers anything all
\* receive every item, in the order the reader got them from receive_frame:
\* outside a broadcast their queues equal the broadcast history, and at any
\* moment two of them differ by at most the item being handed out.
C1_FanOutOrder ==
    \A s, t \in 1..MaxSubs :
        (Live(s) /\ Live(t) /\ chans[s].regAt = 0 /\ chans[t].regAt = 0) =>
            /\ ~SendersLocked => (chans[s].queue = bcast /\ chans[t].queue = bcast)
            /\ \/ chans[s].queue = chans[t].queue
               \/ chans[s].queue = SubSeq(bcast, 1, Len(bcast) - 1)
               \/ chans[t].queue = SubSeq(bcast, 1, Len(bcast) - 1)
            /\ chans[s].queue = SubSeq(bcast, 1, Len(chans[s].queue))

\* two subscriptions made before any frame hold the same two different frames
C1_Witness ==
    /\ ~SendersLocked
    /\ Live(1) /\ Live(2) /\ chans[1].regAt = 0 /\ chans[2].regAt = 0
    /\ Len(bcast) = 2 /\ bcast[1].ok /\ bcast[2].ok /\ bcast[1] # bcast[2]
    /\ chans[1].queue = bcast /\ chans[2].queue = bcast

\* C2: a live subscription holds exactly the items broadcast since it
\* registered, in broadcast order, and the reader keeps its sender in the list
\* until the reader ends.
C2_ExactlySinceRegistration ==
    \A s \in 1..MaxSubs :
        Live(s) =>
            /\ chans[s].queue = Expected(s)
            /\ s \notin Range(senders) => rpc = "done"
            /\ (rpc = "retain" /\ IndexIn(senders, s) \in 1..(ri - 1)) =>
                   s \in Range(kept)

\* a subscription made after the first broadcast holds the second item only,
\* an older one holds both
C2_Witness ==
    /\ ~SendersLocked
    /\ Live(1) /\ Live(2) /\ chans[1].regAt = 0 /\ chans[2].regAt = 1
    /\ Len(bcast) = 2
    /\ chans[1].queue = bcast /\ chans[2].queue = <<bcast[2]>>

\* C3: a transport error is broadcast to every subscriber registered when the
\* reader broadcasts it; the reader then leaves the loop and empties the list;
\* the error is the last item of each such subscriber's queue, its sender is
\* gone afterwards, and nothing is broadcast after the error.
C3_ErrorIsTerminal ==
    /\ ErrorsLast(bcast)
    /\ (bcast # <<>> /\ ~Last(bcast).ok) => rpc \in {"retain", "clear", "done"}
    /\ rpc \in {"clear", "done"} =>
          /\ bcast # <<>> /\ Last(bcast) = ReceiveFrameError
          /\ \A s \in 1..MaxSubs :
                (Live(s) /\ chans[s].regAt < Len(bcast)) =>
                    /\ chans[s].queue # <<>>
                    /\ Last(chans[s].queue) = Last(bcast)
                    /\ rpc = "done" => s \notin Range(senders)
    /\ \A s \in 1..MaxSubs : ErrorsLast(chans[s].queue)

\* the reader has ended on an error that two subscriptions received after a
\* frame
C3_Witness ==
    /\ rpc = "done"
    /\ Live(1) /\ Live(2) /\ senders = <<>>
    /\ Len(bcast) = 2 /\ bcast[1].ok /\ ~bcast[2].ok
    /\ chans[1].queue = bcast /\ chans[2].queue = bcast

\* the subscription s has a terminal error in its queue or its sender is gone
Observed(s) ==
    \/ s \notin Range(senders)
    \/ chans[s].queue # <<>> /\ ~Last(chans[s].queue).ok

\* C4: once the last handle is dropped, every live subscription eventually
\* observes a terminal error or end-of-stream.
C4_Termination ==
    (handles = 0) ~> (\A s \in 1..MaxSubs : Live(s) => Observed(s))

\* the frames of fs that parse, parsed
RECURSIVE ParsedGood(_)
ParsedGood(fs) ==
    IF fs = <<>> THEN <<>>
    ELSE LET parsed == from_bytes(Head(fs))
         IN  (IF parsed.ok THEN <<Ok(parsed.val)>> ELSE <<>>)
             \o ParsedGood(Tail(fs))

\* C5: octets that fail from_bytes reach no subscriber, as a frame or as an
\* error, do not end the reader and remove no subscriber: the frames
\* broadcast are exactly the frames of the transport that parse, in order;
\* errors and the reader's end come from the socket alone.
C5_ParseFailureSkipped ==
    LET good == ParsedGood(frames)
        sent == OkPart(bcast)
    IN  /\ sent = SubSeq(good, 1, Len(sent))
        /\ rpc \notin {"parse", "broadcast"} => Len(sent) = Len(good)
        /\ (rpc \in {"clear", "done"} \/ sent # bcast) =>
               sock \in {"reset", "shutdown"}
        /\ \A s \in 1..MaxSubs :
               (Live(s) /\ sock \in {"open", "eof"}) => s \in Range(senders)

\* octets that do not parse were skipped and the frame after them delivered
C5_Witness ==
    /\ Len(frames) = 2 /\ ~from_bytes(frames[1]).ok /\ from_bytes(frames[2]).ok
    /\ bcast = <<Ok(from_bytes(frames[2]).val)>>
    /\ Live(1) /\ chans[1].regAt = 0 /\ chans[1].queue = bcast
    /\ rpc = "read" /\ sock = "open"

(***************************************************************************)
(* Claims about the frame codec, checked under SpecCodec                   *)
(***************************************************************************)
\* what the last function applied returned
Result == res[Len(res)]

\* the octets the AX.25 table gives a symbol of their own
CanonicalPidOctets ==
    {1, 6, 7, 8, 195, 196, 240, 255} \cup 202..207

\* the two bits 0b0011_0000 of b are 01 or 10
InLayer3Family(b) == (b \div 16) % 4 \in {1, 2}

DecodedThenEncoded == op = <<"from_byte", "to_byte">>

EncodedThenDecoded == op = <<"to_byte", "from_byte">>

\* C19 as stated: to_byte(from_byte(b)) = b for canonical octets and octets
\* that decode to Unknown; from_byte(to_byte(p)) = p for every value p,
\* Unknown(b) for any octet b included; only Layer3Impl octets other than 0x10
\* re-encode to another octet (0x10).
C19_Original ==
    /\ DecodedThenEncoded =>
          /\ (arg \in CanonicalPidOctets \/ from_byte(arg).kind = "Unknown")
                 => Result = arg
          /\ Result # arg <=> (InLayer3Family(arg) /\ arg # 16)
          /\ Result # arg => Result = 16
    /\ EncodedThenDecoded => Result = arg

\* C19 amended: the same, from_byte(to_byte(p)) = p being claimed of
\* Unknown(b) only for the octets b that from_byte decodes to Unknown.
C19_PidRoundTrip ==
    /\ DecodedThenEncoded =>
          /\ (arg \in CanonicalPidOctets \/ from_byte(arg).kind = "Unknown")
                 => Result = arg
          /\ Result # arg <=> (InLayer3Family(arg) /\ arg # 16)
          /\ Result # arg => Result = 16
    /\ EncodedThenDecoded =>
          /\ (arg.kind # "Unknown"
                 \/ (arg.byte \notin CanonicalPidOctets
                       /\ ~InLayer3Family(arg.byte))) => Result = arg
          /\ Result # arg => (arg.kind = "Unknown" /\ Result.kind # "Unknown")

\* Unknown(0x45) was encoded and decoded, and came back
C19_Witness ==
    /\ EncodedThenDecoded
    /\ arg = PidUnknown(69) /\ Result = arg

\* C20: from_byte gives Layer3Impl exactly for the octets whose bits
\* 0b0011_0000 are 01 or 10, else the table's symbol for a table octet, else
\* Unknown carrying the octet; every table octet decodes to its own symbol.
C20_PidDecode ==
    op = <<"from_byte">> =>
        /\ Result.kind = "Layer3Impl" <=> InLayer3Family(arg)
        /\ \A i \in 1..Len(PidTable) :
               arg = PidTable[i][1] => Result = Pid(PidTable[i][2])
        /\ Result.kind = "Unknown" <=>
               (~InLayer3Family(arg) /\ arg \notin CanonicalPidOctets)
        /\ Result.kind = "Unknown" => Result.byte = arg
        /\ arg = 240 => Result = Pid("None")
        /\ arg = 1 => Result = Pid("X25Plp")

\* the octet 0x45 was decoded to Unknown(0x45)
C20_Witness ==
    /\ op = <<"from_byte">>
    /\ arg = 69 /\ Result = PidUnknown(69)

\* C16: for a callsign of 1..=6 uppercase alphanumerics and an SSID 0..=15,
\* parse_address of what to_bytes(high_bit, final_in_address) wrote gives the
\* callsign and the SSID back, and c_bit equal to high_bit.
C16_AddressRoundTrip ==
    (/\ op = <<"Address::to_bytes", "parse_address">>
     /\ arg.addr \in WellFormedAddrs) =>
        /\ Result.ok
        /\ Result.val.callsign = arg.addr.callsign
        /\ Result.val.ssid = arg.addr.ssid
        /\ Result.val.c_bit = arg.high_bit

\* a short callsign, SSID 15, with the high bit and the final bit set, went
\* through to_bytes and parse_address
C16_Witness ==
    /\ op = <<"Address::to_bytes", "parse_address">>
    /\ arg.addr = Addr(<<90, 57>>, 15, FALSE)
    /\ arg.high_bit /\ arg.final_in_address
    /\ res[1] = <<180, 114, 64, 64, 64, 64, 255>>
    /\ Result = Ok(Addr(<<90, 57>>, 15, TRUE))

\* C17: for every address from_str returns, from_str of the text Display
\* writes for it succeeds and returns the same address, SSID 0 included.
C17_DisplayRoundTrip ==
    op = <<"from_str", "fmt", "from_str">> => Result = res[1]

\* the part is one to six alphanumeric characters
GoodCallsignText(part) ==
    /\ Len(part) \in 1..CallsignLen
    /\ \A i \in 1..Len(part) : is_alphanumeric(part[i])

\* the part is a decimal number, with or without a plus sign
IsNumberText(part) ==
    LET digits == IF part # <<>> /\ Head(part) = 43 THEN Tail(part) ELSE part
    IN  digits # <<>> /\ \A i \in 1..Len(digits) : digits[i] \in 48..57

NumberOf(part) ==
    DigitsValue(IF Head(part) = 43 THEN Tail(part) ELSE part)

\* C18: from_str(s) succeeds exactly when s splits on '-' into exactly two
\* parts, 1..=6 alphanumeric characters and a number 0..=15, and then gives
\* the first part uppercased, the number, and c_bit false; otherwise
\* InvalidFormat for a wrong number of parts or a bad callsign, else
\* InvalidSsid when the SSID is not a number, else SsidOutOfRange when the
\* number is above 15.
C18_FromStrContract ==
    op = <<"from_str">> =>
        LET parts == Split(arg)
            formatOk == Len(parts) = 2 /\ GoodCallsignText(parts[1])
        IN  IF ~formatOk
            THEN Result = Err([kind |-> "InvalidFormat"])
            ELSE IF ~IsNumberText(parts[2])
            THEN ~Result.ok /\ Result.err.kind = "InvalidSsid"
            ELSE IF NumberOf(parts[2]) > SsidMax
            THEN Result = Err([kind |-> "SsidOutOfRange"])
            ELSE Result = Ok(Addr(to_uppercase(parts[1]),
                                  NumberOf(parts[2]), FALSE))

(***************************************************************************)
(* Frame round trips                                                       *)
(***************************************************************************)
\* the frame from_bytes decoded from arg
Decoded == res[1].val

\* the index in arg (from 1) of the octet that ends the address field
AddrEnd == Position(arg, LowBitSet, 0) + 1

\* arg with its PID octet replaced by 0x10 when that octet is of the
\* Layer3Impl family, and arg itself otherwise
Layer3Canonical ==
    IF /\ Decoded.content.kind \in {"Information", "UnnumberedInformation"}
       /\ Decoded.content.pid = Pid("Layer3Impl")
    THEN [arg EXCEPT ![AddrEnd + 2] = 16]
    ELSE arg

\* from_bytes decoded arg to a frame of known content, and to_bytes encoded it
DecodedThenReencoded ==
    /\ op = <<"from_bytes", "to_bytes">>
    /\ Decoded.content.kind # "UnknownContent"

\* C14 as stated: for any octets B that from_bytes decodes without
\* UnknownContent, to_bytes of the decoded frame is B, but for a PID octet of
\* the Layer3Impl family, which is written back as 0x10.
C14_Original == DecodedThenReencoded => Result = Layer3Canonical

\* arg is what an encoder writes: no null octet leads it, its address field
\* is a whole number of seven-octet addresses with both reserved bits set in
\* each seventh octet, the C bits of destination and source differ, nothing
\* follows the control octet of an S frame or of SABM, DISC, DM and UA, and
\* the bits of a FRMR that carry nothing are clear
CanonicalOctets ==
    /\ arg[1] # 0
    /\ AddrEnd % 7 = 0
    /\ \A k \in 1..(AddrEnd \div 7) : BitAnd(arg[7 * k], 96) = 96
    /\ BitAnd(arg[7], 128) # BitAnd(arg[14], 128)
    /\ Decoded.content.kind \in
           {"ReceiveReady", "ReceiveNotReady", "Reject",
            "SetAsynchronousBalancedMode", "Disconnect", "DisconnectedMode",
            "UnnumberedAcknowledge"} => Len(arg) = AddrEnd + 1
    /\ Decoded.content.kind = "FrameReject" =>
           BitAnd(arg[AddrEnd + 2], 240) = 0 /\ BitAnd(arg[AddrEnd + 3], 1) = 0

\* C14, amended: for octets B in the form an encoder writes that from_bytes
\* decodes without UnknownContent, to_bytes of the decoded frame is B, but
\* for a PID octet of the Layer3Impl family, which is written back as 0x10.
C14_FrameRoundTrip ==
    (DecodedThenReencoded /\ CanonicalOctets) => Result = Layer3Canonical

\* an I frame in canonical form with PID 0x20 was decoded and written back
\* with PID 0x10, every other octet the same
C14_Witness ==
    /\ DecodedThenReencoded /\ CanonicalOctets
    /\ Decoded.content.kind = "Information"
    /\ arg[AddrEnd + 2] = 32
    /\ Result = [arg EXCEPT ![AddrEnd + 2] = 16]

\* C15: for a frame f the caller builds from addresses from_str returned,
\* Some(Command) or Some(Response), and a known content with sequence
\* numbers 0..=7 and a canonical PID, from_bytes(to_bytes(f)) is f, every
\* field compared, the c_bit of an address included.
C15_EncodeDecode ==
    (/\ op = <<"to_bytes", "from_bytes">>
     /\ arg \in CallerFrames
     /\ arg.command_or_response # "None") => Result = Ok(arg)

(***************************************************************************)
(* Concurrent callers of one handle, checked under SpecSend and FairSend   *)
(***************************************************************************)
\* the octets call i of the log has written so far
WrittenBy(i) ==
    SubSeq(SendFrameBytes(sentLog[i].frame), 1, sentLog[i].written)

\* call i of the log is still between its first and its last write
Writing(i) ==
    \E t \in Threads : tpc[t] \in {"w1", "w2", "w3"} /\ CallOf(t) = i

\* C12: the octets of concurrent send_frame calls are contiguous on the wire:
\* the socket holds the octets of the calls one call after the other, in the
\* order in which the calls took the send mutex, and only the last call of
\* that order can still be writing.
C12_Contiguous ==
    /\ out = Flatten([i \in 1..Len(sentLog) |-> WrittenBy(i)])
    /\ \A i \in 1..Len(sentLog) : Writing(i) => i = Len(sentLog)

\* two threads have each sent a whole frame, thread 2 first
C12_Witness ==
    /\ Len(sentLog) = 2
    /\ sentLog[1].thread = 2 /\ sentLog[2].thread = 1
    /\ \A i \in 1..2 : sentLog[i].written = Len(sentLog[i].frame) + 3
    /\ out = SendFrameBytes(sentLog[1].frame) \o SendFrameBytes(sentLog[2].frame)

\* the reader waits in rx_stream.read for octets that have not come
ReaderBlocked == rpc = "read" /\ wire = <<>> /\ sock = "open"

\* C13: a call of send_frame or incoming() that has been made returns,
\* whatever the reader does, also when the reader stays blocked in
\* receive_frame for ever: no lock the call needs is held for ever.
C13_Independent ==
    \A t \in Threads : (tpc[t] # "idle") ~> (tpc[t] = "idle")

\* with the reader blocked from the start (the peer has sent nothing), a
\* send_frame has written its frame and an incoming() has subscribed, and
\* both have returned
C13_Witness ==
    /\ ReaderBlocked /\ payloads = <<>> /\ bcast = <<>>
    /\ \A t \in Threads : tpc[t] = "idle"
    /\ innerLock = 0 /\ txLock = 0
    /\ sentLog # <<>> /\ out = SendFrameBytes(sentLog[1].frame)
    /\ senders = <<1>>

(***************************************************************************)
(* Ax25Frame::from_bytes: the address field and the content it finds       *)
(***************************************************************************)
\* from_bytes was applied to arg, and nothing after it
DecodedOnce == op = <<"from_bytes">>

AllNull(bytes) == \A i \in 1..Len(bytes) : bytes[i] = 0

NonNullPlaces == {i \in 1..Len(arg) : arg[i] # 0}

OddPlaces == {i \in 1..Len(arg) : arg[i] % 2 = 1}

Least(S) == CHOOSE i \in S : \A j \in S : i <= j

Fails(kind) == ~Result.ok /\ Result.err.kind = kind

AddressFieldErrors ==
    {"OnlyNullBytes", "NoEndToAddressField", "AddressFieldTooShort",
     "FrameTooShort"}

\* C22: from_bytes fails with OnlyNullBytes when no octet is non-null, else
\* with NoEndToAddressField when no octet has the low bit set, else with
\* AddressFieldTooShort when the first such octet is fewer than 14 octets
\* (inclusive) from the first non-null octet, else with FrameTooShort when
\* nothing follows that octet; only past these four are the addresses and
\* the content decoded.
C22_AddressFieldChecks ==
    DecodedOnce =>
        IF NonNullPlaces = {} THEN Fails("OnlyNullBytes")
        ELSE IF OddPlaces = {} THEN Fails("NoEndToAddressField")
        ELSE IF Least(OddPlaces) - Least(NonNullPlaces) + 1 < 14
        THEN Fails("AddressFieldTooShort")
        ELSE IF Least(OddPlaces) = Len(arg) THEN Fails("FrameTooShort")
        ELSE Result.ok \/ Result.err.kind \notin AddressFieldErrors

\* a null octet and three whole addresses with nothing after them were
\* refused as too short a frame
C22_Witness ==
    /\ DecodedOnce
    /\ Len(arg) = 22 /\ arg[1] = 0 /\ OddPlaces = {22}
    /\ Fails("FrameTooShort")

\* the match of the C bits of destination and source, top bits of the
\* seventh and the fourteenth octet of an address field
FromCBits(dest_octet, src_octet) ==
    IF dest_octet >= 128 /\ src_octet < 128 THEN "Command"
    ELSE IF dest_octet < 128 /\ src_octet >= 128 THEN "Response"
    ELSE "None"

\* C23: decoding gives Command for C bits (1,0) of destination and source,
\* Response for (0,1) and None for (0,0) and (1,1); encoding writes (1,0)
\* for Command, (0,1) for Response, and for None the very octets it writes
\* for Command.
C23_CommandResponse ==
    /\ (DecodedOnce /\ Result.ok) =>
          Result.val.command_or_response =
              FromCBits(arg[Least(NonNullPlaces) + 6],
                        arg[Least(NonNullPlaces) + 13])
    /\ op = <<"to_bytes">> =>
          /\ arg.command_or_response # "None" =>
                FromCBits(Result[7], Result[14]) = arg.command_or_response
          /\ arg.command_or_response = "None" =>
                Result = to_bytes([arg EXCEPT !.command_or_response = "Command"])

\* a frame that is neither command nor response was written with the C bit
\* of its destination set and that of its source clear
C23_Witness ==
    /\ op = <<"to_bytes">>
    /\ arg.command_or_response = "None"
    /\ Result[7] >= 128 /\ Result[14] < 128

\* from_bytes found an address field in arg and something after it
PastAddressField ==
    /\ DecodedOnce
    /\ NonNullPlaces # {} /\ OddPlaces # {}
    /\ Least(OddPlaces) - Least(NonNullPlaces) + 1 >= 14
    /\ Least(OddPlaces) < Len(arg)

\* the control octet of arg
Control == arg[Least(OddPlaces) + 1]

SKinds == {"ReceiveReady", "ReceiveNotReady", "Reject"}

UKinds ==
    {"SetAsynchronousBalancedMode", "Disconnect", "DisconnectedMode",
     "UnnumberedAcknowledge", "FrameReject", "UnnumberedInformation"}

\* C26: the control octet c sends every content to a decoder: the I-frame
\* decoder when c & 0x01 == 0, the S-frame decoder when c & 0x03 == 0x01,
\* the U-frame decoder when c & 0x03 == 0x03; from_bytes never returns
\* UnknownContent.
C26_Exhaustive ==
    PastAddressField =>
        IF Result.ok
        THEN /\ Result.val.content.kind # "UnknownContent"
             /\ Control % 2 = 0 => Result.val.content.kind = "Information"
             /\ Control % 4 = 1 => Result.val.content.kind \in SKinds
             /\ Control % 4 = 3 => Result.val.content.kind \in UKinds
        ELSE /\ Control % 2 = 0 => Fails("MissingPidField")
             /\ Control % 4 = 1 => Fails("UnrecognisedSFieldType")
             /\ Control % 4 = 3 =>
                   Result.err.kind \in {"UnrecognisedUFieldType",
                                        "WrongSizeFrmrInfo", "MissingPidField"}

\* a control octet with c & 0x03 == 0x02 was decoded as an I frame
C26_Witness ==
    /\ PastAddressField /\ Control % 4 = 2
    /\ Result.ok /\ Result.val.content.kind = "Information"
    /\ Result.val.content.send_sequence = 1

\* the variant the control octet c selects once its P/F bit is put aside,
\* or "none"
SubType(c) ==
    LET sub == c - (IF (c \div 16) % 2 = 1 THEN 16 ELSE 0)
    IN  IF c % 4 = 1
        THEN CASE sub % 16 = 1 -> "ReceiveReady"
               [] sub % 16 = 5 -> "ReceiveNotReady"
               [] sub % 16 = 9 -> "Reject"
               [] OTHER -> "none"
        ELSE CASE sub = 47 -> "SetAsynchronousBalancedMode"
               [] sub = 67 -> "Disconnect"
               [] sub = 15 -> "DisconnectedMode"
               [] sub = 99 -> "UnnumberedAcknowledge"
               [] sub = 135 -> "FrameReject"
               [] sub = 3 -> "UnnumberedInformation"
               [] OTHER -> "none"

\* the poll/final flag of a decoded S or U content
PollFinal(content) ==
    CASE content.kind \in {"SetAsynchronousBalancedMode", "Disconnect"} ->
           content.poll
      [] content.kind \in {"DisconnectedMode", "UnnumberedAcknowledge",
                           "FrameReject"} -> content.final_bit
      [] OTHER -> content.poll_or_final

Flag(b) == IF b THEN 1 ELSE 0

\* the octet with N(R) in bits 7..5, a flag in bit 4 and N(S) in bits 3..1
SeqOctet(n_r, flag, n_s) == (n_r % 8) * 32 + Flag(flag) * 16 + (n_s % 8) * 2

\* what encode wrote for arg, as far as sequence numbers reach: the control
\* octet of I, RR, RNR and REJ, and the two octets of FRMR that hold the
\* final bit and the sequence numbers
SeqOctetsAsClaimed ==
    CASE arg.kind = "Information" ->
           res[1][1] = SeqOctet(arg.receive_sequence, arg.poll, arg.send_sequence)
      [] arg.kind = "ReceiveReady" ->
           res[1] = <<SeqOctet(arg.receive_sequence, arg.poll_or_final, 0) + 1>>
      [] arg.kind = "ReceiveNotReady" ->
           res[1] = <<SeqOctet(arg.receive_sequence, arg.poll_or_final, 0) + 5>>
      [] arg.kind = "Reject" ->
           res[1] = <<SeqOctet(arg.receive_sequence, arg.poll_or_final, 0) + 9>>
      [] arg.kind = "FrameReject" ->
           /\ res[1][1] = 135 + Flag(arg.final_bit) * 16
           /\ res[1][3] = SeqOctet(arg.receive_sequence,
                                   arg.command_response = "Response",
                                   arg.send_sequence)

\* arg with its sequence numbers taken modulo 8
ModuloEight ==
    IF arg.kind \in {"Information", "FrameReject"}
    THEN [arg EXCEPT !.receive_sequence = @ % 8, !.send_sequence = @ % 8]
    ELSE [arg EXCEPT !.receive_sequence = @ % 8]

\* C28: for any u8 in receive_sequence and send_sequence, encode writes the
\* values modulo 8 into the sequence bits of the control octet of I, RR, RNR
\* and REJ and of the second FRMR octet, every other bit being what the
\* variant and the P/F flag make it, and decoding the octets returns the
\* content with its sequence numbers modulo 8.
C28_SequenceMask ==
    /\ (op # <<>> /\ op[1] = "encode") => SeqOctetsAsClaimed
    /\ op = <<"encode", "parse_content">> => Result = Ok(ModuloEight)

\* an I frame with N(R) = 255 and N(S) = 8 was encoded as 0xe0 and decoded
\* as N(R) = 7, N(S) = 0
C28_Witness ==
    /\ op = <<"encode", "parse_content">>
    /\ arg.kind = "Information"
    /\ arg.receive_sequence = 255 /\ arg.send_sequence = 8 /\ ~arg.poll
    /\ res[1][1] = 224
    /\ Result.val.receive_sequence = 7 /\ Result.val.send_sequence = 0

\* the callsign bytes padded with spaces to six, each shifted left by one
ShiftedCallsign(callsign) ==
    LET bytes == as_bytes(callsign)
    IN  [i \in 1..6 |-> IF i <= Len(bytes) THEN Shl1(bytes[i]) ELSE Shl1(32)]

\* C30: for every address with a callsign of at most 6 bytes and every u8 in
\* ssid, to_bytes returns 7 octets: the six callsign bytes padded with spaces
\* and shifted left by one, then an octet whose high bit equals high_bit,
\* whose bits 6 and 5 are set, whose bits 4..1 hold the SSID and whose low
\* bit equals final_in_address.
C30_AddressLayout ==
    (/\ op # <<>> /\ op[1] = "Address::to_bytes"
     /\ Len(as_bytes(arg.addr.callsign)) <= 6) =>
        /\ Len(res[1]) = 7
        /\ Slice(res[1], 0, 6) = ShiftedCallsign(arg.addr.callsign)
        /\ res[1][7] = Flag(arg.high_bit) * 128 + 96
                         + (arg.addr.ssid % 16) * 2
                         + Flag(arg.final_in_address)

\* the length to_bytes gives the address field of arg
AddressFieldLen == 14 + 7 * Len(arg.route)

\* C29: in the output of to_bytes the address field is 14 + 7 * |route|
\* octets long and the only octet of it with the low bit set is its last;
\* from_bytes on that output decodes |route| route entries, in the original
\* order and with the original has_repeated flags.
C29_EndOfAddress ==
    /\ (op # <<>> /\ op[1] = "to_bytes") =>
          /\ Len(res[1]) > AddressFieldLen
          /\ {i \in 1..AddressFieldLen : res[1][i] % 2 = 1} = {AddressFieldLen}
    /\ op = <<"to_bytes", "from_bytes">> =>
          /\ Result.ok
          /\ Len(Result.val.route) = Len(arg.route)
          /\ \A i \in 1..Len(arg.route) :
                /\ Result.val.route[i].repeater.callsign
                      = arg.route[i].repeater.callsign
                /\ Result.val.route[i].has_repeated = arg.route[i].has_repeated

(***************************************************************************)
(* TncAddress::from_str, checked under SpecCodec                           *)
(***************************************************************************)
TncParsed == op = <<"TncAddress::from_str">>

\* the places of the colons in arg, and the ends of arg as two more
Colons == {i \in 1..Len(arg) : arg[i] = 58}
Bounds == Colons \cup {0, Len(arg) + 1}

\* the number of ':'-separated components of arg
ComponentCount == Cardinality(Colons) + 1

\* the k-th ':'-separated component of arg: what lies between the k-th
\* least bound and the next
Component(k) ==
    LET from == CHOOSE b \in Bounds :
                    Cardinality({c \in Bounds : c < b}) = k - 1
        to == CHOOSE b \in Bounds : Cardinality({c \in Bounds : c < b}) = k
    IN  SubSeq(arg, from + 1, to - 1)

\* text is decimal digits, a '+' before them allowed, of a value a u16 holds
IsU16(text) ==
    LET digits == IF text # <<>> /\ text[1] = 43
                  THEN SubSeq(text, 2, Len(text)) ELSE text
    IN  /\ digits # <<>>
        /\ \A i \in 1..Len(digits) : digits[i] \in 48..57
        /\ DigitsValue(digits) <= 65535

\* the number such a text writes
PortValue(text) ==
    IF text[1] = 43 THEN DigitsValue(SubSeq(text, 2, Len(text)))
    ELSE DigitsValue(text)

HasTncPrefix ==
    Len(arg) >= 4 /\ <<arg[1], arg[2], arg[3], arg[4]>> = <<116, 110, 99, 58>>

\* the parameter count of a TNC type
ExpectedParams(tnc_type) == IF tnc_type = TcpKissWord THEN 2 ELSE 1

\* C24: from_str returns NoTncPrefix when the text does not start with
\* "tnc:"; otherwise UnknownType with the second component when that is
\* neither tcpkiss nor linuxif, whatever the number of components; otherwise
\* WrongParameterCount with expected 2 or 1 and actual the number of
\* components less 2; otherwise InvalidPort when the tcpkiss port is not a
\* u16; otherwise the host and port, or the callsign.
C24_TncAddressParse ==
    TncParsed =>
        IF ~HasTncPrefix
        THEN Result = Err([kind |-> "NoTncPrefix", string |-> arg])
        ELSE IF Component(2) \notin {TcpKissWord, LinuxIfWord}
        THEN Result = Err([kind |-> "UnknownType", tnc_type |-> Component(2)])
        ELSE IF ComponentCount - 2 # ExpectedParams(Component(2))
        THEN Result = Err([kind |-> "WrongParameterCount",
                           tnc_type |-> Component(2),
                           expected |-> ExpectedParams(Component(2)),
                           actual |-> ComponentCount - 2])
        ELSE IF Component(2) = TcpKissWord /\ ~IsU16(Component(4))
        THEN /\ ~Result.ok
             /\ Result.err.kind = "InvalidPort"
             /\ Result.err.input = Component(4)
        ELSE IF Component(2) = TcpKissWord
        THEN Result = Ok([config |-> "TcpKiss", host |-> Component(3),
                          port |-> PortValue(Component(4))])
        ELSE Result = Ok([config |-> "LinuxIf", callsign |-> Component(3)])

\* "tnc:tcpkiss:a:65536" was refused for its port
C24_Witness ==
    /\ TncParsed
    /\ arg = TncPrefix \o TcpKissWord \o <<58, 97, 58, 54, 53, 53, 51, 54>>
    /\ Result = Err([kind |-> "InvalidPort", input |-> <<54, 53, 53, 51, 54>>,
                     source |-> "PosOverflow"])

(***************************************************************************)
(* The subscriber list across a broadcast, checked under Spec              *)
(***************************************************************************)
\* sinks are numbered as they register, so registration order is ascending
InRegistrationOrder(list) ==
    \A i, j \in 1..Len(list) : i < j => list[i] < list[j]

\* the step hands the item to the next sink of the list
HandsOut == rpc = "retain" /\ ri' = ri + 1

\* the step ends a broadcast
EndsBroadcast == rpc = "retain" /\ rpc' # "retain"

\* the step drops the receiver of sink s
Drops(s) == chans[s].rx /\ ~chans'[s].rx

\* what the step that hands the item to sink senders[ri] does
HandedOutRight ==
    LET s == senders[ri]
    IN  /\ ri \in 1..Len(senders)
        /\ \A t \in 1..MaxSubs : t # s => chans'[t] = chans[t]
        /\ IF chans[s].rx
           THEN /\ chans'[s].queue = Append(chans[s].queue, Last(bcast))
                /\ kept' = Append(kept, s)
           ELSE /\ chans'[s] = chans[s]
                /\ kept' = kept
        /\ senders' = senders

\* what the step that ends a broadcast leaves in the list
EndedRight ==
    /\ ri = Len(senders) + 1
    /\ senders' = kept
    /\ \A u \in Range(senders) :
          /\ chans[u].rx => u \in Range(senders')
          /\ (u \in Range(senders') /\ chans[u].rx) =>
                Last(chans[u].queue) = Last(bcast)

\* dropping the receiver of sink d touches nothing else
DroppedAlone(d) ==
    /\ senders' = senders /\ kept' = kept
    /\ \A t \in 1..MaxSubs : t # d => chans'[t] = chans[t]

\* every step is as a broadcast over the list needs it
RetainStep ==
    /\ HandsOut => HandedOutRight
    /\ EndsBroadcast => EndedRight
    /\ \A d \in 1..MaxSubs : Drops(d) => DroppedAlone(d)

\* C25: the item is handed to every sink of the list in turn; a sink whose
\* receiver is gone gets nothing and is left out, a sink whose receiver is
\* alive gets the item at the end of its queue and is kept, and no other
\* queue changes; the broadcast ends only after the whole list, and leaves
\* in the list, in registration order, exactly the sinks whose send
\* succeeded; dropping a receiver changes no other queue and not the list.
C25_FanOutRetain ==
    /\ [](InRegistrationOrder(senders) /\ InRegistrationOrder(kept))
    /\ [][RetainStep]_vars

\* the first subscriber dropped its receiver and a later broadcast took its
\* sink off the list, while the second has every frame broadcast so far
C25_Witness ==
    /\ ~SendersLocked
    /\ chans[1].reg /\ ~chans[1].rx
    /\ Live(2) /\ chans[2].regAt = 0
    /\ senders = <<2>>
    /\ Len(bcast) = 2 /\ bcast[1].ok /\ bcast[2].ok
    /\ chans[2].queue = bcast

(***************************************************************************)
(* Escape errors in the extractor, checked under SpecKiss                  *)
(***************************************************************************)
\* what a run of octets after the start marker adds to the frame: TFEND and
\* TFESC after a FESC stand for FEND and FESC, a FESC with any other octet
\* after it adds nothing, as does a FESC at the end and a FEND; every other
\* octet, TFEND and TFESC included, stands for itself
RECURSIVE Unescaped(_)
Unescaped(data) ==
    IF data = <<>> THEN <<>>
    ELSE IF data[1] = FESC
    THEN IF Len(data) = 1 THEN <<>>
         ELSE (IF data[2] = TFEND THEN <<FEND>>
               ELSE IF data[2] = TFESC THEN <<FESC>>
               ELSE <<>>) \o Unescaped(SubSeq(data, 3, Len(data)))
    ELSE IF data[1] = FEND THEN Unescaped(Tail(data))
    ELSE <<data[1]>> \o Unescaped(Tail(data))

\* the place of the start marker in the buffer the extractor was given
StartMarker == FirstFend(prev, 1)

\* the octets of that buffer between the start marker and place m
DataBefore(m) == SubSeq(prev, StartMarker + 1, m - 1)

\* a FEND at place m, after the start marker, with something gathered
EndsFrame(m) ==
    /\ m \in (StartMarker + 1)..Len(prev)
    /\ prev[m] = FEND
    /\ Unescaped(DataBefore(m)) # <<>>

\* C31: a FESC followed by an octet that is neither TFEND nor TFESC adds
\* nothing to the frame and the octets after it, a bare TFEND or TFESC
\* included, are taken as they are; the frame ends at the first FEND that
\* finds something gathered, also when a FESC stands right before it.
C31_EscapeErrors ==
    ret.called =>
        IF \E m \in 1..Len(prev) : EndsFrame(m)
        THEN LET n == CHOOSE m \in 1..Len(prev) :
                          EndsFrame(m) /\ \A k \in 1..(m - 1) : ~EndsFrame(k)
             IN  /\ ret.frame = Some(Unescaped(DataBefore(n)))
                 /\ buffer = SubSeq(prev, n, Len(prev))
        ELSE ret.frame = None

\* FEND FESC 01 TFEND FESC FEND gave the frame TFEND: the FESC and the 01
\* were dropped, the bare TFEND was kept, and the FEND after the second
\* FESC ended the frame
C31_Witness ==
    /\ ret.called
    /\ prev = <<FEND, FESC, 1, TFEND, FESC, FEND>>
    /\ ret.frame = Some(<<TFEND>>)
    /\ buffer = <<FEND>>

(***************************************************************************)
(* receive_frame at the end of the stream, checked under FairSpec          *)
(***************************************************************************)
\* the reader is inside TcpKissInterface::receive_frame, kiss.rs:32-50
InReceiveFrame == rpc \in {"extract", "read", "append"}

\* the peer has closed, the socket holds nothing more, and the buffer holds
\* no complete frame
StreamEnded ==
    /\ sock = "eof" /\ wire = <<>> /\ chunk = <<>>
    /\ ~make_frame_from_buffer(buffer).frame.some

\* C34: once reads return 0 octets and the buffer holds no complete frame,
\* a call of receive_frame returns, with a frame or with an error.
C34_ReturnsAtEndOfStream ==
    (StreamEnded /\ InReceiveFrame) ~> ~InReceiveFrame

(***************************************************************************)
(* receive_frame and the chunks of the stream, checked under SpecChunk     *)
(***************************************************************************)
\* the frames repeated extraction takes out of a buffer that holds bytes
RECURSIVE AllFrames(_)
AllFrames(bytes) ==
    LET r == make_frame_from_buffer(bytes)
    IN  IF r.frame.some THEN <<r.frame.val>> \o AllFrames(r.buffer) ELSE <<>>

\* every octet of the stream: those read so far, then those still to read
WholeStream == cur \o wire

\* the single caller has read the whole stream and waits for more
AllRead == wire = <<>> /\ tpc[1] = "rf_read"

\* C32: with a single caller the frames returned so far, followed by those
\* the buffer still gives, are the frames of the octets received so far
\* taken as one buffer, however the reads cut the stream; once the whole
\* stream is read they are the frames of the whole stream.
C32_ChunkingInvariance ==
    src = "one" =>
        /\ frames \o AllFrames(buffer) = AllFrames(stream)
        /\ (tpc[1] # "rf_append") => stream = cur
        /\ AllRead => frames = AllFrames(WholeStream)

\* of FEND 01 FEND FESC TFEND the frame 01 was returned before the rest was
\* read, and a read ended between the FESC and the TFEND, which the caller
\* is about to append
C32_Witness ==
    /\ src = "one" /\ tpc[1] = "rf_append"
    /\ frames = <<<<1>>>>
    /\ buffer = <<FEND, FESC>>
    /\ tframe[1] = <<TFEND>>
    /\ stream = <<FEND, 1, FEND, FESC>>
    /\ cur = <<FEND, 1, FEND, FESC, TFEND>>

\* C33: with two threads in receive_frame the chunks are appended to the
\* buffer in the order they were read, and the frames returned are frames
\* of the stream, whole and in its order.
C33_ConcurrentReceive ==
    src = "two" =>
        /\ stream = SubSeq(cur, 1, Len(stream))
        /\ \E k \in 0..Len(AllFrames(WholeStream)) :
              frames = SubSeq(AllFrames(WholeStream), 1, k)

(***************************************************************************)
(* A subscription made after the reader has ended, checked under FairSpec  *)
(***************************************************************************)
\* C35: a subscription that is alive once the reader has ended on a
\* transport error eventually observes a terminal error or end-of-stream,
\* unless its receiver or the last handle is dropped first.
C35_LateSubscription ==
    \A s \in 1..MaxSubs :
        (rpc = "done" /\ handles > 0 /\ Live(s))
            ~> (Observed(s) \/ ~Live(s) \/ handles = 0)

(***************************************************************************)
(* from_bytes on any octets, checked under SpecFrame                       *)
(***************************************************************************)
\* the variants of FrameParseError, frame.rs:18-39
FrameParseErrors ==
    {"OnlyNullBytes", "NoEndToAddressField", "AddressFieldTooShort",
     "FrameTooShort", "AddressInvalidUtf8", "ContentZeroLength",
     "MissingPidField", "UnrecognisedSFieldType", "UnrecognisedUFieldType",
     "WrongSizeFrmrInfo"}

\* the range lies within the slice it is taken of, and is not reversed
InBounds(r) == 0 <= r.from /\ r.from <= r.to /\ r.to <= r.of

\* C36: for every octet sequence, the empty one included, from_bytes returns
\* Ok or a FrameParseError, and every range and index it takes on the way
\* lies within its slice.
C36_Total ==
    DecodedOnce =>
        /\ \A r \in from_bytes_slices(arg) : InBounds(r)
        /\ Result.ok \/ Result.err.kind \in FrameParseErrors
        /\ Result.ok => from_bytes_slices(arg) # {}

\* an I frame cut after its PID decoded with empty information, the range
\* taken for it being the empty one at the end of the content
C36_Witness ==
    /\ DecodedOnce /\ src = "damaged"
    /\ Result.ok
    /\ Result.val.content.kind = "Information"
    /\ Result.val.content.info = <<>>
    /\ [from |-> 2, to |-> 2, of |-> 2] \in from_bytes_slices(arg)
    /\ [from |-> Len(arg) - 2, to |-> Len(arg), of |-> Len(arg)]
           \in from_bytes_slices(arg)

(***************************************************************************)
(* The padding loop of Address::to_bytes, checked under FairPad            *)
(***************************************************************************)
\* C37: every call of to_bytes returns, whatever the length of the
\* callsign: the padding loop reaches its exit condition.
C37_PaddingTerminates ==
    (op = <<"shift">>) ~> (op = <<"shift", "return">>)

====
